---- MODULE Spec2Model ----
(***************************************************************************)
(* A model of the two cores of cleansource-sca-cli:                        *)
(*   - the fingerprint engine, WfpScanner.GenerateWfpFile                  *)
(*     (internal/scanner/wfp.go), with its walk, its digest goroutines,    *)
(*     its record channel and its single writer goroutine;                 *)
(*   - the build-tool resolver, BuildScanner (pkg/buildtools), with        *)
(*     initializeScanners and ScanDependencies.                            *)
(*                                                                         *)
(* Path strings are modelled as [abs, segs]: abs says whether the string   *)
(* starts with the separator, segs is the sequence of its elements.  A     *)
(* file name is a sequence of tokens, "." being a token of its own, so     *)
(* that prefixes and extensions are computed and not assumed:              *)
(*   ".git" is <<".", "git">>, "a.txt" is <<"a", ".", "txt">>.             *)
(***************************************************************************)
EXTENDS Integers, Sequences, FiniteSets, TLC

(***************************************************************************)
(* Bounds of the model.                                                    *)
(***************************************************************************)
\* at most this many files of the candidate tree exist under the scan root
MaxFiles == 3

\* the largest tree of the runs that call GenerateWfpFile more than once
MaxRerunFiles == 1

\* the number of GenerateWfpFile calls made on one scanner
MaxCalls == 2

\* the longest requirements list and the longest installed list of a merge
MaxPipList == 2

\* the most dependency elements of a pom
MaxPomDeps == 2

\* the most transitive dependencies `mvn dependency:tree` prints
MaxTransitive == 1

\* the most lines of a Pipfile
MaxPipfileLines == 2

\* the most lines of build.gradle
MaxGradleLines == 2

\* the most entries of the directory calculateDirSize walks
MaxDirEntries == 4

\* the capacity of sizeChan, scaled down: the source has 100
SizeChanCap == 1

\* the capacity of the semaphore, runtime.NumCPU()*2, for one CPU
SemaphoreCap == 2

\* capacity of fingerprintChan.  The source makes it 100 (wfp.go:56); the
\* model scales it down so that a full channel is reachable with MaxFiles
\* files.  Only "full" / "not full" is observable by the goroutines.
FingerprintChanCap == 1

\* at most this many marker files exist under the resolver's root at first
MaxMarkers == 2

\* at most this many faults (an executable that is not found, a manifest
\* that does not parse) meet one ScanDependencies call
MaxFaults == 2

\* at most this many marker files are added or removed after NewBuildScanner
MaxMarkerChanges == 1

(***************************************************************************)
(* Program constants.                                                      *)
(***************************************************************************)
\* capacity of errorChan
ErrorChanCap == 10

\* size ceiling of shouldSkipFile, 1024*1024
MaxFileSize == 1048576

(***************************************************************************)
(* File names.                                                             *)
(***************************************************************************)
Dot == "."

DotName == <<Dot>>

DotDotName == <<Dot, Dot>>

WfpName == <<"fingerprints", Dot, "wfp">>

N_proj == <<"proj">>

N_w == <<"w">>

N_out == <<"out">>

N_sub == <<"sub">>

N_missing == <<"missing">>

N_notes == <<"notes", Dot, "txt">>

N_hidden == <<Dot, "hidden">>

N_build == <<"build">>

N_node_modules == <<"node_modules">>

(***************************************************************************)
(* Path strings and the path/filepath functions the engine uses.           *)
(***************************************************************************)
Path(a, s) == [abs |-> a, segs |-> s]

EmptyPath == Path(FALSE, <<>>)

\* the process's working directory, "/w"
Cwd == Path(TRUE, <<N_w>>)

RECURSIVE DropDots(_)
DropDots(s) ==
    IF s = <<>> THEN <<>>
    ELSE IF Head(s) = DotName THEN DropDots(Tail(s))
    ELSE <<Head(s)>> \o DropDots(Tail(s))

\* filepath.Clean, for strings without ".." elements: "." elements are
\* dropped, and an empty relative result is "."
Clean(p) ==
    LET s == DropDots(p.segs)
    IN  IF s = <<>> /\ ~p.abs THEN Path(FALSE, <<DotName>>) ELSE Path(p.abs, s)

\* filepath.Join(p, names...): empty elements are ignored, the result is
\* cleaned; Join of nothing but empty elements is the empty string
Join(p, names) ==
    IF p = EmptyPath /\ names = <<>> THEN EmptyPath
    ELSE Clean(Path(p.abs, p.segs \o names))

\* filepath.Base: the last element; "." for the empty string
Base(p) == IF p.segs = <<>> THEN DotName ELSE p.segs[Len(p.segs)]

RECURSIVE CommonLen(_, _)
CommonLen(a, b) ==
    IF a = <<>> \/ b = <<>> THEN 0
    ELSE IF Head(a) = Head(b) THEN 1 + CommonLen(Tail(a), Tail(b))
    ELSE 0

\* Clean(base) with "." turned into "", as filepath.Rel does
RelBase(p) == LET c == Clean(p) IN IF c.segs = <<DotName>> THEN EmptyPath ELSE c

\* filepath.Rel fails when exactly one of the two paths is rooted
RelFails(base, targ) == RelBase(base).abs # Clean(targ).abs

\* filepath.Rel(base, targ) when it does not fail
Rel(base, targ) ==
    LET b == RelBase(base).segs
        t == RelBase(targ).segs
        n == CommonLen(b, t)
        ups == [i \in 1..(Len(b) - n) |-> DotDotName]
        rest == SubSeq(t, n + 1, Len(t))
    IN  IF b = t THEN Path(FALSE, <<DotName>>)
        ELSE Path(FALSE, ups \o rest)

\* what the operating system resolves a path string to: the absolute,
\* cleaned path (the model has no symbolic links)
AbsPath(p) == IF p.abs THEN Clean(p) ELSE Clean(Path(TRUE, Cwd.segs \o p.segs))

(***************************************************************************)
(* The skip predicate, WfpScanner.shouldSkipFile.                          *)
(***************************************************************************)
\* strings.HasPrefix(name, ".")
HasDotPrefix(name) == name # <<>> /\ Head(name) = Dot

\* the skipDirs list of shouldSkipFile
SkipDirs ==
    { <<"node_modules">>, <<"vendor">>, <<"target">>, <<"build">>,
      <<Dot, "git">>, <<Dot, "svn">>, <<Dot, "hg">>, <<"__pycache__">>,
      <<Dot, "tox">>, <<"dist">>, <<Dot, "gradle">> }

\* strings.Contains(path, sep + d + sep) || strings.HasSuffix(path, sep + d):
\* an element equal to d that has a separator in front of it
MatchesSkipDir(p, d) ==
    \E i \in 1..Len(p.segs) : p.segs[i] = d /\ (i > 1 \/ p.abs)

InSkipDir(p) == \E d \in SkipDirs : MatchesSkipDir(p, d)

\* index of the last "." of a name, 0 when there is none
LastDot(name) ==
    LET ds == {i \in 1..Len(name) : name[i] = Dot}
    IN  IF ds = {} THEN 0 ELSE CHOOSE i \in ds : \A j \in ds : j <= i

\* filepath.Ext: the suffix of the last element that starts at its last "."
Ext(p) ==
    LET name == IF p.segs = <<>> THEN <<>> ELSE p.segs[Len(p.segs)]
        i == LastDot(name)
    IN  IF i = 0 THEN <<>> ELSE SubSeq(name, i, Len(name))

LowerTok(t) ==
    CASE t = "PNG" -> "png"
      [] t = "JAR" -> "jar"
      [] OTHER -> t

\* strings.ToLower
ToLower(name) == [i \in 1..Len(name) |-> LowerTok(name[i])]

\* the binaryExts list of shouldSkipFile
BinaryExts ==
    { <<Dot, e>> : e \in
        { "exe", "dll", "so", "dylib", "jar", "war", "ear",
          "zip", "tar", "gz", "bz2", "7z", "rar",
          "png", "jpg", "jpeg", "gif", "bmp", "ico",
          "mp3", "mp4", "avi", "mov", "wav",
          "pdf", "doc", "docx", "xls", "xlsx", "ppt", "pptx",
          "bin", "class", "o", "a", "lib" } }

\* shouldSkipFile(path, info), info.Size() being size
shouldSkipFile(p, size) ==
    \/ HasDotPrefix(Base(p))
    \/ InSkipDir(p)
    \/ ToLower(Ext(p)) \in BinaryExts
    \/ size > MaxFileSize

(***************************************************************************)
(* The file system.  The scan root is /w/proj; the directories /w and      *)
(* /w/out and the file /w/notes.txt exist beside it.  A file of the tree   *)
(* is [rel, size, readable, data]: its path below the root, its size in    *)
(* bytes, whether os.Open succeeds on it, and an identifier of its         *)
(* content.                                                                *)
(***************************************************************************)
File(r, n, ok, d) == [rel |-> r, size |-> n, readable |-> ok, data |-> d]

CandidateFiles ==
    { File(<<N_hidden, <<"c", Dot, "txt">>>>, 4, TRUE, 1),
      File(<<<<"a", Dot, "txt">>>>, 5, TRUE, 2),
      File(<<<<"big", Dot, "txt">>>>, MaxFileSize + 1, TRUE, 3),
      File(<<N_build, <<"out", Dot, "txt">>>>, 6, TRUE, 4),
      File(<<<<"empty", Dot, "txt">>>>, 0, TRUE, 5),
      File(<<<<"img", Dot, "PNG">>>>, 7, TRUE, 6),
      File(<<<<"locked", Dot, "txt">>>>, 3, FALSE, 7),
      File(<<N_node_modules, <<"d", Dot, "js">>>>, 8, TRUE, 8),
      File(<<N_sub, <<"b", Dot, "go">>>>, 9, TRUE, 9),
      File(<<<<"z", Dot, "md">>>>, 2, TRUE, 10) }

\* every entry that can exist below the root, in the lexical order in which
\* filepath.Walk visits a directory's names, depth first
WalkOrder ==
    << <<N_hidden>>,
       <<N_hidden, <<"c", Dot, "txt">>>>,
       <<<<"a", Dot, "txt">>>>,
       <<<<"big", Dot, "txt">>>>,
       <<N_build>>,
       <<N_build, <<"out", Dot, "txt">>>>,
       <<<<"empty", Dot, "txt">>>>,
       <<WfpName>>,
       <<<<"img", Dot, "PNG">>>>,
       <<<<"locked", Dot, "txt">>>>,
       <<N_node_modules>>,
       <<N_node_modules, <<"d", Dot, "js">>>>,
       <<N_sub>>,
       <<N_sub, <<"b", Dot, "go">>>>,
       <<N_sub, WfpName>>,
       <<<<"z", Dot, "md">>>> >>

RootAbs == Path(TRUE, <<N_w, N_proj>>)

\* the spellings of the scan directory a call can be given: "/w/proj",
\* "proj" and "./proj" name the root, "/w/missing" names nothing and
\* "/w/notes.txt" names a regular file
ScanDirInputs ==
    { Path(TRUE, <<N_w, N_proj>>),
      Path(FALSE, <<N_proj>>),
      Path(FALSE, <<DotName, N_proj>>),
      Path(TRUE, <<N_w, N_missing>>),
      Path(TRUE, <<N_w, N_notes>>) }

\* the spellings of config.ToPath: the root (absolute, relative), the
\* directory sub below it, /w/out beside it, and a directory that does not
\* exist
ToPathInputs ==
    { Path(TRUE, <<N_w, N_proj>>),
      Path(FALSE, <<N_proj>>),
      Path(TRUE, <<N_w, N_proj, N_sub>>),
      Path(TRUE, <<N_w, N_out>>),
      Path(TRUE, <<N_w, N_missing>>) }

IsPrefix(a, b) == Len(a) <= Len(b) /\ SubSeq(b, 1, Len(a)) = a

\* the directories that exist, as absolute paths
DirsOf(tr) ==
    { Path(TRUE, <<>>), Cwd, RootAbs, Path(TRUE, <<N_w, N_out>>) }
    \cup UNION { { Path(TRUE, RootAbs.segs \o SubSeq(f.rel, 1, k)) :
                     k \in 1..(Len(f.rel) - 1) } : f \in tr }

\* os.Stat(p): "dir", "file" or "none"
StatKind(tr, p) ==
    LET a == AbsPath(p)
    IN  IF a \in DirsOf(tr) THEN "dir"
        ELSE IF a = Path(TRUE, <<N_w, N_notes>>) THEN "file"
        ELSE IF \E f \in tr : Path(TRUE, RootAbs.segs \o f.rel) = a THEN "file"
        ELSE "none"

(***************************************************************************)
(* State.                                                                  *)
(***************************************************************************)
VARIABLES
    \* ---- the fingerprint engine ----
    tree,             \* the files that exist below the scan root
    scanDir,          \* the argument of GenerateWfpFile
    toPath,           \* config.ToPath
    taskDir,          \* config.TaskDir
    artifactExists,   \* whether the file wfpFile names exists
    artifact,         \* its content: the records written, in order
    pc,               \* where the calling goroutine of GenerateWfpFile is
    walkPos,          \* index of the next entry filepath.Walk visits
    tasks,            \* the digest goroutines, by the entry they were spawned for
    fingerprintChan,  \* the buffered record channel
    chanClosed,       \* whether close(fingerprintChan) has run
    writer,           \* the writer goroutine: "none", "run" or "done"
    errorChan,        \* the buffered error channel
    entries,          \* the entries filepath.Walk finds below the root, in its order
    ret,              \* what GenerateWfpFile returned: [path, err]
    callNo,           \* how many GenerateWfpFile calls the scanner has begun
    prevRun,          \* the call before this one: its arguments and outcome
    \* ---- the build-tool resolver ----
    bsRootExists,     \* whether the environment's directory exists
    markers,          \* the marker files that exist directly under it
    markerChanges,    \* how many marker files were added or removed so far
    bsPc,             \* "new" before NewBuildScanner, "ready" after it
    scanners,         \* BuildScanner.scanners, as the sequence of their tools
    missingExe,       \* the tools whose executable the last scan did not find
    brokenManifest,   \* the tools whose manifest the last scan could not parse
    failedCommand,    \* the tools whose external command failed in the last scan
    deps,             \* the list the last ScanDependencies returned
    scanErr,          \* the error it returned: "none" before any call
    calls,            \* the scanner methods it invoked, in order
    detected,         \* the last DetectBuildTools call: the files it saw, its list
    \* ---- the manifest parsers ----
    job,              \* the parser call to make: its kind and its arguments
    result,           \* what the call returned: NoResult before it
    \* ---- calculateDirSize ----
    dirExists,        \* whether rootDir exists
    dirEntries,       \* the entries filepath.Walk visits, in its order
    sizePc,           \* where the calling goroutine of calculateDirSize is
    sizeWalkPos,      \* index of the next entry the walk visits
    sizeTasks,        \* the size goroutines, by the index of their entry
    semaphore,        \* how many tokens the semaphore channel holds
    sizeChan,         \* the buffered channel of sizes
    sizeChanClosed,   \* whether close(sizeChan) has run
    totalSize,        \* the accumulator
    sizeRet,          \* what calculateDirSize returned: [size, err]
    \* ---- runSourceScan ----
    appConfig,        \* config: Token # "", AuthType, BuildDepend, IsSaveSourceFile == 1
    runPc,            \* the step runSourceScan is at
    runLog,           \* the steps it has taken, in order, with their outcomes
    uploadData,       \* the UploadData handed to the client: NoUpload before
    runRet            \* what runSourceScan returned: [err, removed]

wfpVars ==
    << tree, scanDir, toPath, taskDir, artifactExists, artifact, pc, walkPos,
       tasks, fingerprintChan, chanClosed, writer, errorChan, entries, ret >>

scanVars ==
    << bsRootExists, markers, markerChanges, bsPc, scanners, missingExe,
       brokenManifest, failedCommand, deps, scanErr, calls, detected >>

\* what survives from one GenerateWfpFile call of a scanner to its next
callVars == << callNo, prevRun >>

\* the state the engine's steps leave alone, and the resolver's
parseVars == << job, result >>

sizeVars ==
    << dirExists, dirEntries, sizePc, sizeWalkPos, sizeTasks, semaphore,
       sizeChan, sizeChanClosed, totalSize, sizeRet >>

runVars == << appConfig, runPc, runLog, uploadData, runRet >>

wfpFrame == << callVars, scanVars, parseVars, sizeVars, runVars >>

scanFrame == << wfpVars, callVars, parseVars, sizeVars, runVars >>

parseFrame == << wfpVars, callVars, scanVars, sizeVars, runVars >>

sizeFrame == << wfpVars, callVars, scanVars, parseVars, runVars >>

runFrame == << wfpVars, callVars, scanVars, parseVars, sizeVars >>

vars == << wfpVars, callVars, scanVars, parseVars, sizeVars, runVars >>

(***************************************************************************)
(* GenerateWfpFile: helpers.                                               *)
(***************************************************************************)
\* wfpFile := filepath.Join(w.config.ToPath, "fingerprints.wfp")
wfpFile == Join(toPath, <<WfpName>>)

\* the file the operating system opens for wfpFile
ArtifactAbs == AbsPath(wfpFile)

\* the file the operating system opens for the entry r below the scan root
EntryAbs(r) == AbsPath(Join(scanDir, r))

\* the entry r is the artifact file
IsArtifact(r) == EntryAbs(r) = ArtifactAbs

IsTreeFile(r) == \E f \in tree : f.rel = r

TreeFile(r) == CHOOSE f \in tree : f.rel = r

IsDirEntry(r) ==
    \/ \E f \in tree : Len(r) < Len(f.rel) /\ IsPrefix(r, f.rel)
    \/ \E k \in 1..Len(ArtifactAbs.segs) - 1 :
           EntryAbs(r) = Path(TRUE, SubSeq(ArtifactAbs.segs, 1, k))

\* the scan directory names the root of the tree (and not the empty
\* directory beside it)
AtTreeRoot == AbsPath(scanDir) = RootAbs

EntryExists(r) == (AtTreeRoot /\ (IsTreeFile(r) \/ IsDirEntry(r))) \/ IsArtifact(r)

\* the entries filepath.Walk visits below the root, in its order, once
\* os.Create has made the artifact
WalkEntries == SelectSeq(WalkOrder, EntryExists)

\* info.Size() of an entry: the artifact has the size it has grown to
EntrySize(r) == IF IsArtifact(r) THEN Len(artifact) ELSE TreeFile(r).size

\* the walk callback's decision to spawn a digest goroutine for path
\* (wfp.go:79-85)
WalkSkips(r, path) ==
    \/ path = wfpFile
    \/ IsDirEntry(r)
    \/ shouldSkipFile(path, EntrySize(r))

\* md5.Sum followed by %x: an injective tag of the content
Md5(data) == <<"md5", data>>

\* the relative path of generateFileFingerprint (wfp.go:198-201)
RelPath(filePath) ==
    IF RelFails(taskDir, filePath) THEN filePath ELSE Rel(taskDir, filePath)

\* the record line of generateFileFingerprint (wfp.go:204-205)
Fingerprint(filePath, data, n) ==
    [file |-> RelPath(filePath), hash |-> Md5(data), size |-> n]

NoFingerprint == [file |-> EmptyPath, hash |-> <<>>, size |-> 0]

\* generateFileFingerprint without the error check on os.Open: the file
\* that cannot be opened gets the record of an empty read
generateFileFingerprintNoOpenCheck(r, filePath) ==
    IF IsArtifact(r)
    THEN IF Len(artifact) = 0
         THEN [res |-> "empty", fp |-> NoFingerprint]
         ELSE [res |-> "ok", fp |-> Fingerprint(filePath, artifact, Len(artifact))]
    ELSE LET f == TreeFile(r)
         IN  IF ~f.readable THEN [res |-> "ok", fp |-> Fingerprint(filePath, 0, 0)]
             ELSE IF f.size = 0 THEN [res |-> "empty", fp |-> NoFingerprint]
             ELSE [res |-> "ok", fp |-> Fingerprint(filePath, f.data, f.size)]

\* generateFileFingerprint(filePath) for the entry r: "err" when the file
\* cannot be opened, "empty" when it has no content, else "ok" with the
\* record.  The artifact is read as it is at the moment of the read.
generateFileFingerprint(r, filePath) ==
    IF IsArtifact(r)
    THEN IF Len(artifact) = 0
         THEN [res |-> "empty", fp |-> NoFingerprint]
         ELSE [res |-> "ok", fp |-> Fingerprint(filePath, artifact, Len(artifact))]
    ELSE LET f == TreeFile(r)
         IN  IF ~f.readable THEN [res |-> "err", fp |-> NoFingerprint]
             ELSE IF f.size = 0 THEN [res |-> "empty", fp |-> NoFingerprint]
             ELSE [res |-> "ok", fp |-> Fingerprint(filePath, f.data, f.size)]

\* a wg.Wait() that does not wait for the digest goroutines
TasksFinishedNoWait == TRUE

\* wg.Wait() returns
TasksFinished == \A r \in DOMAIN tasks : tasks[r].pc = "done"

\* writerWG.Wait() returns
WriterFinished == writer = "done"

\* a send on fingerprintChan can proceed
ChanHasRoom == Len(fingerprintChan) < FingerprintChanCap

Result(p, e) == [path |-> p, err |-> e]

(***************************************************************************)
(* GenerateWfpFile: the steps of the calling goroutine, of the digest      *)
(* goroutines and of the writer goroutine.                                 *)
(***************************************************************************)
\* the check without its IsDir part
ScanDirOkAnyKind == StatKind(tree, scanDir) # "none"

\* the os.Stat check of the scan directory (wfp.go:37)
ScanDirOk == StatKind(tree, scanDir) = "dir"

\* os.Create(wfpFile) can succeed only in a directory that exists
CanCreate ==
    StatKind(tree, IF toPath = EmptyPath THEN Path(FALSE, <<DotName>>) ELSE toPath) = "dir"

\* the goroutines run until a panic ends the process
Running == pc # "panic"

\* wfp.go:33-70: the checks, the creation of the artifact, the start of the
\* writer.  fsOk is whether the file system lets os.Create succeed.
Begin ==
    /\ pc = "start"
    /\ IF ~ScanDirOk
       THEN /\ ret' = Result(EmptyPath, "not_found")
            /\ pc' = "done"
            /\ UNCHANGED << taskDir, artifactExists, artifact, writer, entries >>
       ELSE /\ taskDir' = IF taskDir = EmptyPath THEN scanDir ELSE taskDir
            /\ \E fsOk \in BOOLEAN :
                 IF CanCreate /\ fsOk
                 THEN /\ artifactExists' = TRUE
                      /\ artifact' = <<>>
                      /\ writer' = "run"
                      /\ entries' = WalkEntries
                      /\ pc' = "walk"
                      /\ UNCHANGED ret
                 ELSE /\ ret' = Result(EmptyPath, "create")
                      /\ pc' = "done"
                      /\ UNCHANGED << artifactExists, artifact, writer, entries >>
    /\ UNCHANGED << tree, scanDir, toPath, walkPos, tasks, fingerprintChan,
                    chanClosed, errorChan >>
    /\ UNCHANGED wfpFrame

\* wfp.go:73-103: the walk callback on the next entry; it spawns a digest
\* goroutine for an entry it does not skip
WalkStep ==
    /\ pc = "walk"
    /\ walkPos <= Len(entries)
    /\ LET r == entries[walkPos]
           path == Join(scanDir, r)
       IN  tasks' = IF WalkSkips(r, path) THEN tasks
                    ELSE tasks @@ (r :> [pc |-> "run", path |-> path, fp |-> NoFingerprint])
    /\ walkPos' = walkPos + 1
    /\ UNCHANGED << tree, scanDir, toPath, taskDir, artifactExists, artifact, pc,
                    fingerprintChan, chanClosed, writer, errorChan, entries, ret >>
    /\ UNCHANGED wfpFrame

\* filepath.Walk returns (always nil: the callback never returns an error)
WalkReturn ==
    /\ pc = "walk"
    /\ walkPos > Len(entries)
    /\ pc' = "wait"
    /\ UNCHANGED << tree, scanDir, toPath, taskDir, artifactExists, artifact,
                    walkPos, tasks, fingerprintChan, chanClosed, writer,
                    errorChan, entries, ret >>
    /\ UNCHANGED wfpFrame

\* wfp.go:91-97: a digest goroutine computes its record; it ends at once
\* when the file is unreadable or empty
TaskDigest(r) ==
    /\ Running
    /\ r \in DOMAIN tasks
    /\ tasks[r].pc = "run"
    /\ LET g == generateFileFingerprint(r, tasks[r].path)
       IN  tasks' = [tasks EXCEPT ![r] =
                        IF g.res = "ok"
                        THEN [@ EXCEPT !.pc = "send", !.fp = g.fp]
                        ELSE [@ EXCEPT !.pc = "done"]]
    /\ UNCHANGED << tree, scanDir, toPath, taskDir, artifactExists, artifact, pc,
                    walkPos, fingerprintChan, chanClosed, writer, errorChan, entries, ret >>
    /\ UNCHANGED wfpFrame

\* a digest goroutine that writes its line to the file itself
TaskSendWritesFile(r) ==
    /\ Running
    /\ r \in DOMAIN tasks
    /\ tasks[r].pc = "send"
    /\ artifact' = Append(artifact, tasks[r].fp)
    /\ tasks' = [tasks EXCEPT ![r].pc = "done"]
    /\ UNCHANGED << tree, scanDir, toPath, taskDir, artifactExists, pc,
                    fingerprintChan, walkPos, chanClosed, writer, errorChan,
                    entries, ret >>
    /\ UNCHANGED wfpFrame

\* wfp.go:98: fingerprintChan <- fingerprint; it blocks while the channel is
\* full and panics on a closed channel
TaskSend(r) ==
    /\ Running
    /\ r \in DOMAIN tasks
    /\ tasks[r].pc = "send"
    /\ IF chanClosed
       THEN /\ pc' = "panic"
            /\ UNCHANGED << tasks, fingerprintChan >>
       ELSE /\ ChanHasRoom
            /\ fingerprintChan' = Append(fingerprintChan, tasks[r].fp)
            /\ tasks' = [tasks EXCEPT ![r].pc = "done"]
            /\ UNCHANGED pc
    /\ UNCHANGED << tree, scanDir, toPath, taskDir, artifactExists, artifact,
                    walkPos, chanClosed, writer, errorChan, entries, ret >>
    /\ UNCHANGED wfpFrame

\* wfp.go:64-68: the writer receives one record and writes its line; when
\* the write fails it reports the error and ends
WriterStep ==
    /\ Running
    /\ writer = "run"
    /\ fingerprintChan # <<>>
    /\ fingerprintChan' = Tail(fingerprintChan)
    /\ \E writeOk \in BOOLEAN :
         IF writeOk
         THEN /\ artifact' = Append(artifact, Head(fingerprintChan))
              /\ UNCHANGED << writer, errorChan >>
         ELSE /\ Len(errorChan) < ErrorChanCap
              /\ errorChan' = Append(errorChan, "write")
              /\ writer' = "done"
              /\ UNCHANGED artifact
    /\ UNCHANGED << tree, scanDir, toPath, taskDir, artifactExists, pc, walkPos,
                    tasks, chanClosed, entries, ret >>
    /\ UNCHANGED wfpFrame

\* wfp.go:64: the range loop ends on the closed, drained channel
WriterExit ==
    /\ Running
    /\ writer = "run"
    /\ fingerprintChan = <<>>
    /\ chanClosed
    /\ writer' = "done"
    /\ UNCHANGED << tree, scanDir, toPath, taskDir, artifactExists, artifact, pc,
                    walkPos, tasks, fingerprintChan, chanClosed, errorChan, entries, ret >>
    /\ UNCHANGED wfpFrame

\* wfp.go:106-107: wg.Wait(); close(fingerprintChan)
WaitTasks ==
    /\ pc = "wait"
    /\ TasksFinished
    /\ chanClosed' = TRUE
    /\ pc' = "writerWait"
    /\ UNCHANGED << tree, scanDir, toPath, taskDir, artifactExists, artifact,
                    walkPos, tasks, fingerprintChan, writer, errorChan, entries, ret >>
    /\ UNCHANGED wfpFrame

\* a return that does not look at errorChan
WriteErrorIgnored == FALSE

\* the select on errorChan finds an error (wfp.go:113-117)
WriteErrorPending == errorChan # <<>>

\* wfp.go:110-124: writerWG.Wait(), the select on errorChan, the return
Return ==
    /\ pc = "writerWait"
    /\ WriterFinished
    /\ IF WriteErrorPending
       THEN /\ errorChan' = Tail(errorChan)
            /\ ret' = Result(EmptyPath, "write")
       ELSE /\ ret' = Result(wfpFile, "nil")
            /\ UNCHANGED errorChan
    /\ pc' = "done"
    /\ UNCHANGED << tree, scanDir, toPath, taskDir, artifactExists, artifact,
                    walkPos, tasks, fingerprintChan, chanClosed, writer, entries >>
    /\ UNCHANGED wfpFrame

(***************************************************************************)
(* The part of the state each specification leaves alone.                  *)
(***************************************************************************)
\* no parser call is to be made
NoJob == [kind |-> "none"]

NoResult == [kind |-> "none"]

\* no BuildScanner exists
ScanIdle ==
    /\ bsRootExists = TRUE
    /\ markers = {}
    /\ markerChanges = 0
    /\ bsPc = "new"
    /\ scanners = <<>>
    /\ missingExe = {}
    /\ brokenManifest = {}
    /\ failedCommand = {}
    /\ deps = <<>>
    /\ scanErr = "none"
    /\ calls = <<>>
    /\ detected = [called |-> FALSE, files |-> {}, tools |-> <<>>]

\* no parser is called
ParseIdle ==
    /\ job = NoJob
    /\ result = NoResult

\* calculateDirSize is not called
SizeIdle ==
    /\ dirExists = TRUE
    /\ dirEntries = <<>>
    /\ sizePc = "idle"
    /\ sizeWalkPos = 1
    /\ sizeTasks = <<>>
    /\ semaphore = 0
    /\ sizeChan = <<>>
    /\ sizeChanClosed = FALSE
    /\ totalSize = 0
    /\ sizeRet = [size |-> 0, err |-> "pending"]

\* no UploadData was handed to the client
NoUpload == [sent |-> FALSE]

\* runSourceScan is not called
RunIdle ==
    /\ appConfig = [HasToken |-> FALSE, AuthType |-> "", BuildDepend |-> FALSE,
                    IsSaveSourceFile |-> FALSE]
    /\ runPc = "idle"
    /\ runLog = <<>>
    /\ uploadData = NoUpload
    /\ runRet = [err |-> "pending", removed |-> {}]

\* there was no earlier call
NoRun == [scanDir |-> EmptyPath, err |-> "none", records |-> <<>>]

\* no GenerateWfpFile call was made
WfpIdle ==
    /\ tree = {}
    /\ scanDir = RootAbs
    /\ toPath = RootAbs
    /\ taskDir = EmptyPath
    /\ artifactExists = FALSE
    /\ artifact = <<>>
    /\ pc = "idle"
    /\ walkPos = 1
    /\ tasks = <<>>
    /\ fingerprintChan = <<>>
    /\ chanClosed = FALSE
    /\ writer = "none"
    /\ errorChan = <<>>
    /\ entries = <<>>
    /\ ret = [path |-> EmptyPath, err |-> "pending"]
    /\ callNo = 0
    /\ prevRun = NoRun

(***************************************************************************)
(* The fingerprint engine's specification: one call of GenerateWfpFile on  *)
(* a fresh scanner, over every tree of at most MaxFiles candidate files,   *)
(* every spelling of the scan directory and every output directory.        *)
(***************************************************************************)
WfpInit ==
    /\ tree \in {t \in SUBSET CandidateFiles : Cardinality(t) <= MaxFiles}
    /\ scanDir \in ScanDirInputs
    /\ toPath \in ToPathInputs
    /\ taskDir = EmptyPath
    /\ artifactExists = FALSE
    /\ artifact = <<>>
    /\ pc = "start"
    /\ walkPos = 1
    /\ tasks = <<>>
    /\ fingerprintChan = <<>>
    /\ chanClosed = FALSE
    /\ writer = "none"
    /\ errorChan = <<>>
    /\ entries = <<>>
    /\ ret = Result(EmptyPath, "pending")
    /\ callNo = 1
    /\ prevRun = NoRun
    /\ ScanIdle
    /\ ParseIdle
    /\ SizeIdle
    /\ RunIdle

WfpNext ==
    \/ Begin
    \/ WalkStep
    \/ WalkReturn
    \/ \E r \in DOMAIN tasks : TaskDigest(r)
    \/ \E r \in DOMAIN tasks : TaskSend(r)
    \/ WriterStep
    \/ WriterExit
    \/ WaitTasks
    \/ Return

Spec == WfpInit /\ [][WfpNext]_vars

\* the Go scheduler runs some goroutine whenever one can take a step; no
\* step of a call can be repeated, so this is all termination needs
WfpFairness == WF_vars(WfpNext)

\* one call on the root /w/proj that writes its artifact to /w/out
LiveInit ==
    /\ WfpInit
    /\ scanDir = RootAbs
    /\ toPath = Path(TRUE, <<N_w, N_out>>)

LiveSpec == LiveInit /\ [][WfpNext]_vars /\ WfpFairness

(***************************************************************************)
(* Successive calls on one scanner.  The scanner keeps its configuration   *)
(* (ToPath, and the TaskDir the first call stored in it), the tree is      *)
(* unchanged and the artifact of the call before is still on disk; the     *)
(* goroutines, channels and wait groups are locals of the call and start   *)
(* afresh.                                                                 *)
(***************************************************************************)
\* the next call of GenerateWfpFile, with scan directory sd, once the call
\* before has returned (wfp.go:33, the same receiver w)
GenerateWfpFileAgain(sd) ==
    /\ pc = "done"
    /\ callNo < MaxCalls
    /\ callNo' = callNo + 1
    /\ prevRun' = [scanDir |-> scanDir, err |-> ret.err, records |-> artifact]
    /\ scanDir' = sd
    /\ pc' = "start"
    /\ walkPos' = 1
    /\ tasks' = <<>>
    /\ fingerprintChan' = <<>>
    /\ chanClosed' = FALSE
    /\ writer' = "none"
    /\ errorChan' = <<>>
    /\ entries' = <<>>
    /\ ret' = Result(EmptyPath, "pending")
    /\ UNCHANGED << tree, toPath, taskDir, artifactExists, artifact >>
    /\ UNCHANGED << scanVars, parseVars, sizeVars, runVars >>

\* the scan directories of successive calls: those of a single call, and
\* the directory /w/out beside the root
RerunDirInputs == ScanDirInputs \cup { Path(TRUE, <<N_w, N_out>>) }

\* the first call is made on a fresh scanner, for a directory that exists
RerunInit ==
    /\ tree \in {t \in SUBSET CandidateFiles : Cardinality(t) <= MaxRerunFiles}
    /\ scanDir \in {sd \in RerunDirInputs : StatKind(tree, sd) = "dir"}
    /\ toPath \in ToPathInputs
    /\ taskDir = EmptyPath
    /\ artifactExists = FALSE
    /\ artifact = <<>>
    /\ pc = "start"
    /\ walkPos = 1
    /\ tasks = <<>>
    /\ fingerprintChan = <<>>
    /\ chanClosed = FALSE
    /\ writer = "none"
    /\ errorChan = <<>>
    /\ entries = <<>>
    /\ ret = Result(EmptyPath, "pending")
    /\ callNo = 1
    /\ prevRun = NoRun
    /\ ScanIdle
    /\ ParseIdle
    /\ SizeIdle
    /\ RunIdle

RerunNext ==
    \/ WfpNext
    \/ \E sd \in RerunDirInputs : GenerateWfpFileAgain(sd)

RerunSpec == RerunInit /\ [][RerunNext]_vars

(***************************************************************************)
(* The build-tool resolver, BuildScanner.                                  *)
(***************************************************************************)
\* the orders in which a `range` over the Go map m can deliver the values of m
RangeOrders(m) ==
    LET k == Cardinality(DOMAIN m)
    IN  { [i \in 1..k |-> m[f[i]]] :
            f \in { g \in [1..k -> DOMAIN m] :
                       \A a, b \in 1..k : a # b => g[a] # g[b] } }

\* the ecosystems initializeScanners knows, in the order it checks them
Tools == << "maven", "gradle", "pip", "pipenv", "npm", "go" >>

ToolSet == { Tools[i] : i \in 1..Len(Tools) }

\* the marker files initializeScanners looks for
MarkerFiles ==
    { "pom.xml", "build.gradle", "build.gradle.kts", "requirements.txt",
      "setup.py", "pyproject.toml", "Pipfile", "package.json", "go.mod" }

\* the marker files of one ecosystem (initializeScanners, lines 84-121)
MarkersOf(t) ==
    CASE t = "maven" -> { "pom.xml" }
      [] t = "gradle" -> { "build.gradle", "build.gradle.kts" }
      [] t = "pip" -> { "requirements.txt", "setup.py", "pyproject.toml" }
      [] t = "pipenv" -> { "Pipfile" }
      [] t = "npm" -> { "package.json" }
      [] t = "go" -> { "go.mod" }

\* BuildScanner.fileExists on a name directly under the directory
fileExists(name) == bsRootExists /\ name \in markers

\* the buildFiles map of DetectBuildTools (lines 169-181)
buildFiles ==
    ("pom.xml" :> "maven") @@ ("build.gradle" :> "gradle")
    @@ ("build.gradle.kts" :> "gradle") @@ ("requirements.txt" :> "pip")
    @@ ("setup.py" :> "pip") @@ ("pyproject.toml" :> "pip")
    @@ ("Pipfile" :> "pipenv") @@ ("package.json" :> "npm")
    @@ ("go.mod" :> "go") @@ ("Cargo.toml" :> "cargo")
    @@ ("composer.json" :> "composer")

\* the lists DetectBuildTools can return (lines 165-190): the tool of every
\* file of the map that exists, in the order the map is ranged over
DetectedTools ==
    RangeOrders([ f \in { g \in DOMAIN buildFiles : fileExists(g) } |-> buildFiles[f] ])

\* DetectBuildTools was not called
NotDetected == [called |-> FALSE, files |-> {}, tools |-> <<>>]

\* initializeScanners: one scanner for every ecosystem with a marker file
initializeScanners ==
    SelectSeq(Tools, LAMBDA t : \E m \in MarkersOf(t) : fileExists(m))

\* Scannable.ExeFind: nil exactly when the tool's executable is found
ExeFind(t, noExe) == t \notin noExe

\* Scannable.FileFind: nil exactly when a manifest of the tool exists
FileFind(t) == \E m \in MarkersOf(t) : fileExists(m)

\* the DependencyRoot a scanner builds from its manifest
DependencyRoot(t) == [BuildTool |-> t, ProjectName |-> t, Dependencies |-> <<>>]

\* whether Scannable.ScanExecute of the scanner of t returns an error, when
\* the manifests of broken do not parse and the external commands of
\* cmdFails fail:
\*   maven   only when the command fails and parsePOM failed too
\*           (maven.go:107-122);
\*   gradle  never, a manifest that does not parse gives a root without
\*           dependencies (integration_scanner_test.go:837-843);
\*   pip     never (pip.go:128-145);
\*   pipenv  when `pipenv run pip freeze` fails
\*           (integration_scanner_test.go:906-909);
\*   npm     when package.json does not decode
\*           (integration_scanner_test.go:964-967);
\*   go      when `go list` fails (integration_scanner_test.go:1023-1026)
ExecuteFails(t, broken, cmdFails) ==
    CASE t = "maven" -> t \in cmdFails /\ t \in broken
      [] t = "gradle" -> FALSE
      [] t = "pip" -> FALSE
      [] t = "pipenv" -> t \in cmdFails
      [] t = "npm" -> t \in broken
      [] t = "go" -> t \in cmdFails

\* Scannable.ScanExecute: one root, or an error
ScanExecute(t, broken, cmdFails) ==
    IF ExecuteFails(t, broken, cmdFails) THEN [err |-> "failed", roots |-> <<>>]
    ELSE [err |-> "nil", roots |-> <<DependencyRoot(t)>>]

Call(t, m) == [tool |-> t, method |-> m]

\* what the loop does after a failed ExeFind: `continue` (line 136)
AfterExeFindFails(t, noExe, broken, cmdFails) ==
    [ok |-> FALSE, roots |-> <<>>, calls |-> <<Call(t, "ExeFind")>>]

\* a loop that goes on to ScanExecute whatever FileFind returned
AfterExeFindNoFileCheck(t, broken, cmdFails) ==
    LET x == ScanExecute(t, broken, cmdFails)
    IN  [ok |-> x.err = "nil", roots |-> x.roots,
         calls |-> <<Call(t, "ExeFind"), Call(t, "FileFind"),
                     Call(t, "ScanExecute")>>]

\* the loop's steps after ExeFind returned nil (lines 139-152)
AfterExeFind(t, broken, cmdFails) ==
    IF ~FileFind(t)
    THEN [ok |-> FALSE, roots |-> <<>>,
          calls |-> <<Call(t, "ExeFind"), Call(t, "FileFind")>>]
    ELSE LET x == ScanExecute(t, broken, cmdFails)
         IN  [ok |-> x.err = "nil", roots |-> x.roots,
              calls |-> <<Call(t, "ExeFind"), Call(t, "FileFind"),
                          Call(t, "ScanExecute")>>]

\* one iteration of the loop of ScanDependencies (lines 132-153): ok says
\* whether it reached the append of line 152
ScanOne(t, noExe, broken, cmdFails) ==
    IF ~ExeFind(t, noExe) THEN AfterExeFindFails(t, noExe, broken, cmdFails)
    ELSE AfterExeFind(t, broken, cmdFails)

\* an append that overwrites the list instead of extending it
AppendRootsOverwrite(all, new) == new

\* allDependencies = append(allDependencies, dependencies...) (line 152)
AppendRoots(all, new) == all \o new

\* the loop of ScanDependencies over bs.scanners from position i on, acc
\* being allDependencies and the calls made so far
RECURSIVE ScanLoop(_, _, _, _, _, _)
ScanLoop(ss, i, noExe, broken, cmdFails, acc) ==
    IF i > Len(ss) THEN acc
    ELSE LET one == ScanOne(ss[i], noExe, broken, cmdFails)
         IN  ScanLoop(ss, i + 1, noExe, broken, cmdFails,
                      [roots |-> IF one.ok THEN AppendRoots(acc.roots, one.roots)
                                 ELSE acc.roots,
                       calls |-> acc.calls \o one.calls])

\* a return that reports a failure when no scanner produced a root
ScanDependenciesErrIfEmpty(cs, roots) ==
    IF cs # <<>> /\ roots = <<>> THEN "failed" ELSE "nil"

\* the error ScanDependencies returns (line 155), whatever the scanners did
ScanDependenciesErr(cs, roots) == "nil"

\* NewBuildScanner: initializeScanners fixes the scanner list
NewBuildScanner ==
    /\ bsPc = "new"
    /\ scanners' = initializeScanners
    /\ bsPc' = "ready"
    /\ UNCHANGED << bsRootExists, markers, markerChanges, missingExe,
                    brokenManifest, failedCommand, deps, scanErr, calls, detected >>
    /\ UNCHANGED scanFrame

\* the environment adds or removes a marker file
ChangeMarker(m) ==
    /\ bsRootExists
    /\ markerChanges < MaxMarkerChanges
    /\ markers' = IF m \in markers THEN markers \ {m} ELSE markers \cup {m}
    /\ markerChanges' = markerChanges + 1
    /\ UNCHANGED << bsRootExists, bsPc, scanners, missingExe, brokenManifest,
                    failedCommand, deps, scanErr, calls, detected >>
    /\ UNCHANGED scanFrame

\* a ScanDependencies that looks for the marker files again before it
\* runs the scanners
ScanDependenciesRedetects(noExe, broken, cmdFails) ==
    /\ bsPc = "ready"
    /\ LET r == ScanLoop(initializeScanners, 1, noExe, broken, cmdFails,
                         [roots |-> <<>>, calls |-> <<>>])
       IN  /\ deps' = r.roots
           /\ calls' = r.calls
           /\ scanErr' = "nil"
    /\ scanners' = initializeScanners
    /\ missingExe' = noExe
    /\ brokenManifest' = broken
    /\ failedCommand' = cmdFails
    /\ UNCHANGED << bsRootExists, markers, markerChanges, bsPc, detected >>
    /\ UNCHANGED scanFrame

\* ScanDependencies, in an environment where the executables of noExe are
\* not found, the manifests of broken do not parse and the external
\* commands of cmdFails fail
ScanDependencies(noExe, broken, cmdFails) ==
    /\ bsPc = "ready"
    /\ LET r == ScanLoop(scanners, 1, noExe, broken, cmdFails,
                         [roots |-> <<>>, calls |-> <<>>])
       IN  /\ deps' = r.roots
           /\ calls' = r.calls
           /\ scanErr' = ScanDependenciesErr(r.calls, r.roots)
    /\ missingExe' = noExe
    /\ brokenManifest' = broken
    /\ failedCommand' = cmdFails
    /\ UNCHANGED << bsRootExists, markers, markerChanges, bsPc, scanners, detected >>
    /\ UNCHANGED scanFrame

\* DetectBuildTools is called on the scanner
DetectBuildTools ==
    /\ bsPc = "ready"
    /\ \E l \in DetectedTools :
          detected' = [called |-> TRUE,
                       files |-> IF bsRootExists THEN markers ELSE {},
                       tools |-> l]
    /\ UNCHANGED << bsRootExists, markers, markerChanges, bsPc, scanners,
                    missingExe, brokenManifest, failedCommand, deps, scanErr, calls >>
    /\ UNCHANGED scanFrame

\* the faults one call can meet: they concern the scanners it runs
FaultSets ==
    LET ts == { scanners[i] : i \in 1..Len(scanners) }
    IN  { f \in (SUBSET ts) \X (SUBSET ts) \X (SUBSET ts) :
            Cardinality(f[1]) + Cardinality(f[2]) + Cardinality(f[3]) <= MaxFaults }

ScanInit ==
    /\ bsRootExists \in BOOLEAN
    /\ markers \in {ms \in SUBSET MarkerFiles :
                      /\ Cardinality(ms) <= MaxMarkers
                      /\ (~bsRootExists => ms = {})}
    /\ markerChanges = 0
    /\ bsPc = "new"
    /\ scanners = <<>>
    /\ missingExe = {}
    /\ brokenManifest = {}
    /\ failedCommand = {}
    /\ deps = <<>>
    /\ scanErr = "none"
    /\ calls = <<>>
    /\ detected = NotDetected
    /\ WfpIdle
    /\ ParseIdle
    /\ SizeIdle
    /\ RunIdle

ScanNext ==
    \/ NewBuildScanner
    \/ \E m \in MarkerFiles : ChangeMarker(m)
    \/ \E f \in FaultSets : ScanDependencies(f[1], f[2], f[3])

ScanSpec == ScanInit /\ [][ScanNext]_vars

\* a scanner on which both ScanDependencies and DetectBuildTools are
\* called, any number of times, while marker files come and go
FrameNext ==
    \/ ScanNext
    \/ DetectBuildTools

FrameSpec == ScanInit /\ [][FrameNext]_vars

\* detection alone: a scanner is made for a directory with some of the
\* files of the buildFiles map, files come and go, and DetectBuildTools is
\* called at any time after NewBuildScanner
DetectInit ==
    /\ bsRootExists \in BOOLEAN
    /\ markers \in {ms \in SUBSET DOMAIN buildFiles :
                      /\ Cardinality(ms) <= MaxMarkers
                      /\ (~bsRootExists => ms = {})}
    /\ markerChanges = 0
    /\ bsPc = "new"
    /\ scanners = <<>>
    /\ missingExe = {}
    /\ brokenManifest = {}
    /\ failedCommand = {}
    /\ deps = <<>>
    /\ scanErr = "none"
    /\ calls = <<>>
    /\ detected = NotDetected
    /\ WfpIdle
    /\ ParseIdle
    /\ SizeIdle
    /\ RunIdle

DetectNext ==
    \/ NewBuildScanner
    \/ \E m \in DOMAIN buildFiles : ChangeMarker(m)
    \/ DetectBuildTools

DetectSpec == DetectInit /\ [][DetectNext]_vars

(***************************************************************************)
(* runSourceScan.  The calls it makes (the client, the fingerprint engine, *)
(* the resolver, the archiver) are taken with their outcomes: a step of    *)
(* the log is [step, ok].                                                  *)
(***************************************************************************)
Step(name, ok) == [step |-> name, ok |-> ok]

\* the files the deferred os.Remove calls remove when the function returns
\* after the fingerprint file was generated (lines 96-98, 108-112, 123-127)
Deferred(files) == { f \in files : f # "" }

\* lines 64-66 and 167-177: verifyAuth, by token when there is one, else
\* by login; ok is what the client returned
RunVerifyAuth ==
    /\ runPc = "auth"
    /\ appConfig' = [appConfig EXCEPT
                        !.AuthType = IF appConfig.HasToken THEN "token" ELSE "cookie"]
    /\ \E ok \in BOOLEAN :
          /\ runLog' = Append(runLog, Step("auth", ok))
          /\ IF ok
             THEN runPc' = "dir" /\ UNCHANGED runRet
             ELSE runPc' = "done" /\ runRet' = [err |-> "authentication failed", removed |-> {}]
    /\ UNCHANGED uploadData
    /\ UNCHANGED runFrame

\* lines 69-77: the scan directory exists and is not empty
RunCheckDir ==
    /\ runPc = "dir"
    /\ \E kind \in { "missing", "empty", "files" } :
          /\ runLog' = Append(runLog, Step("dir", kind = "files"))
          /\ CASE kind = "missing" ->
                    runPc' = "done" /\ runRet' = [err |-> "scan directory does not exist", removed |-> {}]
               [] kind = "empty" ->
                    runPc' = "done" /\ runRet' = [err |-> "nil", removed |-> {}]
               [] kind = "files" ->
                    runPc' = "size" /\ UNCHANGED runRet
    /\ UNCHANGED << appConfig, uploadData >>
    /\ UNCHANGED runFrame

\* lines 80-85: calculateDirSize; its error is logged, the size is then 0
RunDirSize ==
    /\ runPc = "size"
    /\ \E ok \in BOOLEAN : runLog' = Append(runLog, Step("size", ok))
    /\ runPc' = "wfp"
    /\ UNCHANGED << appConfig, uploadData, runRet >>
    /\ UNCHANGED runFrame

\* lines 91-95: generateWfpFile; its error ends the scan
RunGenerateWfp ==
    /\ runPc = "wfp"
    /\ \E ok \in BOOLEAN :
          /\ runLog' = Append(runLog, Step("wfp", ok))
          /\ IF ok
             THEN runPc' = "deps" /\ UNCHANGED runRet
             ELSE runPc' = "done"
                  /\ runRet' = [err |-> "failed to generate fingerprint file", removed |-> {}]
    /\ UNCHANGED << appConfig, uploadData >>
    /\ UNCHANGED runFrame

\* a dependency step whose failure ends the scan
RunBuildDependenciesStrict ==
    /\ runPc = "deps"
    /\ IF appConfig.BuildDepend
       THEN \E ok \in BOOLEAN :
              /\ runLog' = Append(runLog, Step("deps", ok))
              /\ IF ok
                 THEN runPc' = "archive" /\ UNCHANGED runRet
                 ELSE runPc' = "done"
                      /\ runRet' = [err |-> "failed to build dependency information",
                                    removed |-> { "fingerprints.wfp" }]
       ELSE runPc' = "archive" /\ UNCHANGED << runLog, runRet >>
    /\ UNCHANGED << appConfig, uploadData >>
    /\ UNCHANGED runFrame

\* lines 101-113: buildDependencyInfo when config.BuildDepend is set; its
\* error (of ScanDependencies, of the encoding, of the write) is logged
RunBuildDependencies ==
    /\ runPc = "deps"
    /\ IF appConfig.BuildDepend
       THEN \E ok \in BOOLEAN : runLog' = Append(runLog, Step("deps", ok))
       ELSE UNCHANGED runLog
    /\ runPc' = "archive"
    /\ UNCHANGED << appConfig, uploadData, runRet >>
    /\ UNCHANGED runFrame

\* lines 116-128: CreateZipArchive when IsSaveSourceFile is 1; its error
\* is logged
RunArchive ==
    /\ runPc = "archive"
    /\ IF appConfig.IsSaveSourceFile
       THEN \E ok \in BOOLEAN : runLog' = Append(runLog, Step("archive", ok))
       ELSE UNCHANGED runLog
    /\ runPc' = "upload"
    /\ UNCHANGED << appConfig, uploadData, runRet >>
    /\ UNCHANGED runFrame

\* the file name of a step that ran and succeeded, "" otherwise
FileOf(log, name, file) ==
    IF \E i \in 1..Len(log) : log[i] = Step(name, TRUE) THEN file ELSE ""

\* lines 131-150: client.UploadData and the return, with the deferred
\* removals
RunUpload ==
    /\ runPc = "upload"
    /\ LET buildFile == FileOf(runLog, "deps", "dependencies.json")
           archiveFile == FileOf(runLog, "archive", "source.zip")
       IN  /\ uploadData' = [sent |-> TRUE, WfpFile |-> "fingerprints.wfp",
                             BuildFile |-> buildFile, ArchiveFile |-> archiveFile]
           /\ \E outcome \in { "ok", "error", "refused" } :
                 /\ runLog' = Append(runLog, Step("upload", outcome = "ok"))
                 /\ runRet' = [err |-> CASE outcome = "ok" -> "nil"
                                         [] outcome = "error" -> "failed to upload data"
                                         [] outcome = "refused" -> "upload was not successful",
                               removed |-> Deferred({ "fingerprints.wfp", buildFile, archiveFile })]
    /\ runPc' = "done"
    /\ UNCHANGED appConfig
    /\ UNCHANGED runFrame

\* one call of runSourceScan under any configuration
RunInit ==
    /\ appConfig \in [HasToken : BOOLEAN, AuthType : { "" }, BuildDepend : BOOLEAN,
                       IsSaveSourceFile : BOOLEAN]
    /\ runPc = "auth"
    /\ runLog = <<>>
    /\ uploadData = NoUpload
    /\ runRet = [err |-> "pending", removed |-> {}]
    /\ WfpIdle
    /\ ScanIdle
    /\ ParseIdle
    /\ SizeIdle

RunNext ==
    \/ RunVerifyAuth
    \/ RunCheckDir
    \/ RunDirSize
    \/ RunGenerateWfp
    \/ RunBuildDependencies
    \/ RunArchive
    \/ RunUpload

RunSpec == RunInit /\ [][RunNext]_vars

(***************************************************************************)
(* The manifest parsers.  A dependency is model.Dependency with its        *)
(* model.DependencyID; strings are kept as they are.                       *)
(***************************************************************************)
Dep(group, name, version, type, scope) ==
    [ ID |-> [Group |-> group, Name |-> name, Version |-> version, Type |-> type],
      Name |-> name, Version |-> version, Type |-> type, Scope |-> scope ]

\* model.DependencyRoot
Root(name, version, tool, ds) ==
    [ProjectName |-> name, ProjectVersion |-> version, BuildTool |-> tool,
     Dependencies |-> ds]

\* the dependency parseRequirementLine and getInstalledPackages build
\* (pip.go:232-243, 280-290)
PipDep(name, version) == Dep("", name, version, "pip", "runtime")

\* a Go map from package name to dependency: m[k] = dep
MapPut(m, k, dep) ==
    [ n \in DOMAIN m \cup {k} |-> IF n = k THEN dep ELSE m[n] ]

\* for _, dep := range list { m[dep.Name] = dep }
RECURSIVE MapPutAll(_, _)
MapPutAll(m, list) ==
    IF list = <<>> THEN m
    ELSE MapPutAll(MapPut(m, Head(list).Name, Head(list)), Tail(list))

\* an empty map
EmptyMap == [ n \in {} |-> 0 ]

\* a merge in which the installed packages override the requirements
depMapInstalledLast(requirements, installed) ==
    MapPutAll(MapPutAll(EmptyMap, requirements), installed)

\* depMap of mergeDependencies: the installed packages first, then the
\* requirements over them (pip.go:297-307)
depMap(requirements, installed) ==
    MapPutAll(MapPutAll(EmptyMap, installed), requirements)

\* the lists mergeDependencies(requirements, installed) can return
\* (pip.go:296-315)
mergeDependencies(requirements, installed) ==
    RangeOrders(depMap(requirements, installed))

\* the package names and versions of the lists given to the merge
PipNames == { "X", "Y" }

PipVersions == { "1.1.0", "1.2.0" }

RECURSIVE SeqsUpTo(_, _)
SeqsUpTo(S, n) ==
    IF n = 0 THEN { <<>> }
    ELSE SeqsUpTo(S, n - 1)
         \cup { Append(q, x) : q \in { p \in SeqsUpTo(S, n - 1) : Len(p) = n - 1 }, x \in S }

PipLists ==
    SeqsUpTo({ PipDep(n, v) : n \in PipNames, v \in PipVersions }, MaxPipList)

\* a line of requirements.txt, trimmed: [kind, name, sep, version], kind
\* being "req" for a requirement, "comment" for a line that starts with #
\* and "option" for one that starts with -; sep is the version specifier
\* of a requirement, "" when it has none
ReqLine(kind, name, sep, version) ==
    [kind |-> kind, name |-> name, sep |-> sep, version |-> version]

\* parseRequirementLine (pip.go:201-244): the name before the first
\* specifier and the version after it, "unknown" without a specifier
parseRequirementLine(line) ==
    IF line.sep = "" THEN PipDep(line.name, "unknown")
    ELSE PipDep(line.name, line.version)

\* parseRequirementsFile (pip.go:165-197): comments, options and empty
\* lines are skipped
RECURSIVE parseRequirementsFile(_)
parseRequirementsFile(lines) ==
    IF lines = <<>> THEN <<>>
    ELSE IF Head(lines).kind = "req"
         THEN << parseRequirementLine(Head(lines)) >> \o parseRequirementsFile(Tail(lines))
         ELSE parseRequirementsFile(Tail(lines))

\* the roots PipScanner.ScanExecute can return (pip.go:116-163) for a
\* requirements.txt with these lines and this outcome of `pip list`;
\* setup.py is absent
PipScanExecute(lines, installed) ==
    LET reqDeps == parseRequirementsFile(lines)
        lists == IF installed.ok THEN mergeDependencies(reqDeps, installed.deps)
                 ELSE { reqDeps }
    IN  { << Root("unknown", "unknown", "pip", l) >> : l \in lists }

ReqLines ==
    { ReqLine("req", "X", "==", "1.2.0"),
      ReqLine("req", "Y", ">=", "1.1.0"),
      ReqLine("req", "X", "", ""),
      ReqLine("comment", "", "", ""),
      ReqLine("option", "", "", "") }

PipJobs ==
    { [kind |-> "pip", lines |-> ls, installed |-> inst] :
        ls \in SeqsUpTo(ReqLines, MaxPipList),
        inst \in { [ok |-> FALSE, deps |-> <<>>] }
                 \cup { [ok |-> TRUE, deps |-> l] : l \in PipLists } }

\* PipScanner.ScanExecute is called
PipExecute ==
    /\ job.kind = "pip"
    /\ result = NoResult
    /\ \E rs \in PipScanExecute(job.lines, job.installed) :
          result' = [kind |-> "pip", err |-> "nil", roots |-> rs]
    /\ UNCHANGED job
    /\ UNCHANGED parseFrame

MergeJobs ==
    { [kind |-> "merge", requirements |-> r, installed |-> i] :
        r \in PipLists, i \in PipLists }

(***************************************************************************)
(* Maven.  A pom is [ok, ArtifactID, Version, deps]: whether pom.xml       *)
(* decodes, the project identity, and the elements of                      *)
(* project/dependencies/dependency as MavenDependency records, an absent   *)
(* child element being the empty string.  The output of                    *)
(* `mvn dependency:tree` is [ok, lines]: whether the command succeeded,    *)
(* and its lines, each [mark, parts]: the tree indicator of the line       *)
(* ("+-", "\\-" or none) and the fields between the colons of its text.    *)
(***************************************************************************)
MavenDependency(g, a, v, scope, type) ==
    [GroupID |-> g, ArtifactID |-> a, Version |-> v, Scope |-> scope, Type |-> type]

\* the dependency pomToDepencyRoot builds from one element
\* (maven.go:259-279): the defaults go to Type and Scope, ID.Type keeps
\* what the pom has
pomDependency(dep) ==
    [ ID |-> [Group |-> dep.GroupID, Name |-> dep.ArtifactID,
              Version |-> dep.Version, Type |-> dep.Type],
      Name |-> dep.ArtifactID, Version |-> dep.Version,
      Type |-> IF dep.Type = "" THEN "jar" ELSE dep.Type,
      Scope |-> IF dep.Scope = "" THEN "compile" ELSE dep.Scope ]

\* pomToDepencyRoot (maven.go:255-288)
pomToDepencyRoot(pom) ==
    Root(pom.ArtifactID, pom.Version, "maven",
         [i \in 1..Len(pom.deps) |-> pomDependency(pom.deps[i])])

\* the scope words parseDependencyLine looks for in the fourth field
ScopeWords == { "compile", "test", "provided", "runtime" }

\* parseDependencyLine (maven.go:194-252) on the fields of a line that has
\* at least three of them
parseDependencyLine(parts) ==
    LET n == Len(parts)
        version == IF n = 3 THEN parts[3]
                   ELSE IF n = 4 /\ parts[4] \in ScopeWords THEN parts[3]
                   ELSE parts[4]
        scope == IF n = 3 THEN "compile"
                 ELSE IF n = 4 THEN (IF parts[4] \in ScopeWords THEN parts[4] ELSE "compile")
                 ELSE parts[5]
        depType == IF n = 3 THEN "jar"
                   ELSE IF n = 4 /\ parts[4] \in ScopeWords THEN "jar"
                   ELSE parts[3]
    IN  Dep(parts[1], parts[2], version, depType, scope)

\* parseDependencyTreeOutput (maven.go:172-191): the lines with a colon and
\* a tree indicator, those parseDependencyLine accepts
RECURSIVE parseDependencyTreeOutput(_)
parseDependencyTreeOutput(lines) ==
    IF lines = <<>> THEN <<>>
    ELSE LET l == Head(lines)
             rest == parseDependencyTreeOutput(Tail(lines))
         IN  IF Len(l.parts) >= 2 /\ l.mark \in { "+-", "\\-" } /\ Len(l.parts) >= 3
             THEN << parseDependencyLine(l.parts) >> \o rest
             ELSE rest

\* MavenScanner.ScanExecute (maven.go:103-136)
MavenScanExecute(pom, out) ==
    IF ~out.ok
    THEN IF pom.ok THEN [err |-> "nil", roots |-> << pomToDepencyRoot(pom) >>]
         ELSE [err |-> "failed", roots |-> <<>>]
    ELSE [err |-> "nil",
          roots |-> << Root(IF pom.ok THEN pom.ArtifactID ELSE "",
                            IF pom.ok THEN pom.Version ELSE "",
                            "maven", parseDependencyTreeOutput(out.lines)) >>]

\* the dependency elements of the poms: junit with scope test, guava with
\* neither scope nor type, a bill of materials of type pom
PomElements ==
    { MavenDependency("junit", "junit", "4.13.2", "test", ""),
      MavenDependency("com.google.guava", "guava", "31.1-jre", "", ""),
      MavenDependency("org.example", "bom", "1.0", "", "pom") }

BrokenPom == [ok |-> FALSE, ArtifactID |-> "", Version |-> "", deps |-> <<>>]

Poms ==
    { BrokenPom }
    \cup { [ok |-> TRUE, ArtifactID |-> "test-project", Version |-> "1.0.0", deps |-> d] :
             d \in SeqsUpTo(PomElements, MaxPomDeps) }

TreeLine(mark, parts) == [mark |-> mark, parts |-> parts]

\* the line Maven prints for a direct dependency
DirectLine(dep) ==
    TreeLine("+-", << dep.GroupID, dep.ArtifactID,
                      IF dep.Type = "" THEN "jar" ELSE dep.Type, dep.Version,
                      IF dep.Scope = "" THEN "compile" ELSE dep.Scope >>)

\* the line of a dependency of a dependency
TransitiveLine == TreeLine("\\-", << "org.hamcrest", "hamcrest-core", "jar", "1.3", "test" >>)

\* what `mvn dependency:tree` can do for a pom: fail, or print the project
\* line, the direct dependencies and, when there are any, up to
\* MaxTransitive dependencies of theirs
TreeOutputs(pom) ==
    { [ok |-> FALSE, lines |-> <<>>] }
    \cup { [ok |-> TRUE,
            lines |-> << TreeLine("", << "com.example", "test-project", "jar", "1.0.0" >>) >>
                      \o [i \in 1..Len(pom.deps) |-> DirectLine(pom.deps[i])]
                      \o [i \in 1..k |-> TransitiveLine]] :
            k \in 0..(IF pom.deps = <<>> THEN 0 ELSE MaxTransitive) }

\* a pom that decodes comes with an output for it; what a command prints
\* for a pom that does not decode is not known
MavenJobs ==
    UNION { { [kind |-> "maven", pom |-> pom, tree |-> out] :
                out \in IF pom.ok THEN TreeOutputs(pom)
                        ELSE UNION { TreeOutputs(q) : q \in Poms } } :
            pom \in Poms }

\* MavenScanner.ScanExecute is called
MavenExecute ==
    /\ job.kind = "maven"
    /\ result = NoResult
    /\ LET x == MavenScanExecute(job.pom, job.tree)
       IN  result' = [kind |-> "maven", err |-> x.err, roots |-> x.roots]
    /\ UNCHANGED job
    /\ UNCHANGED parseFrame

\* PipScanner.mergeDependencies is called on the job's lists
MergeDependencies ==
    /\ job.kind = "merge"
    /\ result = NoResult
    /\ \E l \in mergeDependencies(job.requirements, job.installed) :
          result' = [kind |-> "merge", deps |-> l]
    /\ UNCHANGED job
    /\ UNCHANGED parseFrame

\* a trimmed line of build.gradle: the words before the quoted literal,
\* split at the capitals, whether "=" stands before the literal, and the
\* parts of the literal between its colons (<<>>: no literal)
GradleLine(words, eq, literal) == [words |-> words, eq |-> eq, literal |-> literal]

\* strings.Contains(line, word), case-sensitive, on the tokens of the line
Contains(line, word) ==
    LET toks == line.words \o line.literal
    IN  \E i \in 1..(Len(toks) - Len(word) + 1) :
            SubSeq(toks, i, i + Len(word) - 1) = word

\* extractGradleValue (lines 1368-1385): the quoted value after key and "="
extractGradleValue(line, key) ==
    IF /\ line.eq
       /\ line.words # <<>>
       /\ line.words[Len(line.words)] = key
       /\ Len(line.literal) = 1
    THEN line.literal[1]
    ELSE ""

\* parseGradleDependency (lines 1388-1421): <<dep>>, or <<>> for nil; the
\* expression matches a quoted literal of three parts
parseGradleDependency(line) ==
    IF Len(line.literal) >= 3
    THEN << Dep(line.literal[1], line.literal[2], line.literal[3], "gradle",
                IF \/ Contains(line, <<"test", "Implementation">>)
                   \/ Contains(line, <<"test", "Compile">>)
                THEN "test"
                ELSE IF Contains(line, <<"compile", "Only">>) THEN "provided"
                ELSE "runtime") >>
    ELSE <<>>

\* lines 1349-1350: the lines parseBuildGradle hands to
\* parseGradleDependency
IsDependencyLine(line) ==
    \/ Contains(line, <<"implementation">>)
    \/ Contains(line, <<"compile">>)
    \/ Contains(line, <<"api">>)
    \/ Contains(line, <<"test", "Implementation">>)

\* the loop of parseBuildGradle (lines 1332-1355) from line i on
RECURSIVE parseBuildGradleLoop(_, _, _, _, _)
parseBuildGradleLoop(lines, i, name, version, ds) ==
    IF i > Len(lines) THEN [name |-> name, version |-> version, deps |-> ds]
    ELSE LET line == lines[i]
             n == IF \/ Contains(line, <<"rootProject.", "name">>)
                     \/ (line.eq /\ line.words # <<>>
                                 /\ line.words[Len(line.words)] = "name")
                  THEN extractGradleValue(line, "name") ELSE ""
             v == IF Contains(line, <<"version">>) /\ ~Contains(line, <<"dependencies">>)
                  THEN extractGradleValue(line, "version") ELSE ""
             d == IF IsDependencyLine(line) THEN parseGradleDependency(line) ELSE <<>>
         IN  parseBuildGradleLoop(lines, i + 1,
                                  IF n # "" THEN n ELSE name,
                                  IF v # "" THEN v ELSE version,
                                  ds \o d)

\* parseBuildGradle (lines 1307-1365) on a build.gradle that is there
parseBuildGradle(lines) ==
    LET r == parseBuildGradleLoop(lines, 1, "", "", <<>>)
    IN  [name |-> IF r.name = "" THEN "unknown" ELSE r.name,
         version |-> IF r.version = "" THEN "unknown" ELSE r.version,
         deps |-> r.deps]

\* GradleScanner.ScanExecute (lines 833-853)
GradleScanExecute(readable, lines) ==
    IF readable
    THEN LET r == parseBuildGradle(lines)
         IN  << Root(r.name, r.version, "gradle", r.deps) >>
    ELSE << Root("unknown", "unknown", "gradle", <<>>) >>

\* the dependency configurations of Gradle the inputs use
GradleConfigurations ==
    { <<"implementation">>, <<"api">>, <<"compile">>, <<"compile", "Only">>,
      <<"runtime", "Only">>, <<"test", "Implementation">>, <<"test", "Compile">>,
      <<"test", "Runtime", "Only">> }

GradleLiterals == { <<"junit", "junit", "4.12">>, <<"junit", "junit">>, <<>> }

GradleLines ==
    { GradleLine(k, FALSE, l) : k \in GradleConfigurations, l \in GradleLiterals }
    \cup { GradleLine(<<"dependencies", "{">>, FALSE, <<>>),
           GradleLine(<<"version">>, TRUE, <<"1.0">>),
           GradleLine(<<"rootProject.", "name">>, TRUE, <<"demo">>) }

GradleJobs ==
    { [kind |-> "gradle", readable |-> rd, lines |-> ls] :
        rd \in BOOLEAN, ls \in SeqsUpTo(GradleLines, MaxGradleLines) }

\* a trimmed line of a Pipfile: the section it stands in ("custom" for a
\* project field that is not part of the Pipfile format), the key, whether
\* the key is followed by " = " with both blanks, and the value with
\* whether it is quoted; a section header has the key ""
PipfileLine(sect, key, spaced, quoted, value) ==
    [sect |-> sect, key |-> key, spaced |-> spaced, quoted |-> quoted, value |-> value]

\* strings.HasPrefix(line, key + " = ")
HasKeyPrefix(line, key) == line.key = key /\ line.spaced

\* extractQuotedValue (lines 1292-1304) on what follows "key ="
extractQuotedValue(line) == IF line.quoted THEN line.value ELSE ""

\* the loop of parsePipfile (lines 1226-1234) from line i on
RECURSIVE parsePipfileLoop(_, _, _, _)
parsePipfileLoop(lines, i, name, version) ==
    IF i > Len(lines) THEN [name |-> name, version |-> version]
    ELSE LET line == lines[i]
         IN  IF HasKeyPrefix(line, "name")
             THEN parsePipfileLoop(lines, i + 1, extractQuotedValue(line), version)
             ELSE IF HasKeyPrefix(line, "version")
             THEN parsePipfileLoop(lines, i + 1, name, extractQuotedValue(line))
             ELSE parsePipfileLoop(lines, i + 1, name, version)

\* parsePipfile (lines 1215-1244): [name, version, err]
parsePipfile(readable, lines) ==
    IF ~readable THEN [name |-> "", version |-> "", err |-> "open"]
    ELSE LET r == parsePipfileLoop(lines, 1, "", "")
         IN  [name |-> IF r.name = "" THEN "unknown" ELSE r.name,
              version |-> IF r.version = "" THEN "unknown" ELSE r.version,
              err |-> "nil"]

\* lines of the Pipfile format, and custom project fields
PipfileLines ==
    { PipfileLine("source", "", FALSE, FALSE, ""),
      PipfileLine("source", "url", TRUE, TRUE, "https://pypi.org/simple"),
      PipfileLine("source", "name", TRUE, TRUE, "pypi"),
      PipfileLine("packages", "requests", TRUE, TRUE, "*"),
      PipfileLine("requires", "python_version", TRUE, TRUE, "3.9"),
      PipfileLine("custom", "name", TRUE, TRUE, "demo"),
      PipfileLine("custom", "name", FALSE, TRUE, "demo"),
      PipfileLine("custom", "version", TRUE, TRUE, "1.0"),
      PipfileLine("custom", "version", TRUE, FALSE, "1.0") }

PipfileJobs ==
    { [kind |-> "pipfile", readable |-> rd, lines |-> ls] :
        rd \in BOOLEAN, ls \in SeqsUpTo(PipfileLines, MaxPipfileLines) }

\* PipenvScanner.parsePipfile is called
ParsePipfile ==
    /\ job.kind = "pipfile"
    /\ result = NoResult
    /\ result' = [kind |-> "pipfile", parsed |-> parsePipfile(job.readable, job.lines)]
    /\ UNCHANGED job
    /\ UNCHANGED parseFrame

\* the decision of the walk callback (wfp.go:83) for a regular file that
\* is not the artifact: the path it passes to shouldSkipFile is the root
\* as it was given, joined with the file's path below it
SkipDecision(root, f) == shouldSkipFile(Join(root, f.rel), f.size)

\* scan roots at several places and in several spellings: /w/proj, proj,
\* /w/build/proj, /w/dist, build and "."
SkipRoots ==
    { Path(TRUE, <<N_w, N_proj>>),
      Path(FALSE, <<N_proj>>),
      Path(TRUE, <<N_w, N_build, N_proj>>),
      Path(TRUE, <<N_w, <<"dist">>>>),
      Path(FALSE, <<N_build>>),
      Path(FALSE, <<DotName>>) }

SkipJobs == { [kind |-> "skip", root |-> r, file |-> f] : r \in SkipRoots, f \in CandidateFiles }

\* the walk callback decides about one file
DecideSkip ==
    /\ job.kind = "skip"
    /\ result = NoResult
    /\ result' = [kind |-> "skip", skip |-> SkipDecision(job.root, job.file)]
    /\ UNCHANGED job
    /\ UNCHANGED parseFrame

\* GradleScanner.ScanExecute is called
GradleExecute ==
    /\ job.kind = "gradle"
    /\ result = NoResult
    /\ result' = [kind |-> "gradle", err |-> "nil",
                  roots |-> GradleScanExecute(job.readable, job.lines)]
    /\ UNCHANGED job
    /\ UNCHANGED parseFrame

ParseInit ==
    /\ job \in MergeJobs \cup MavenJobs \cup PipJobs \cup GradleJobs
                \cup PipfileJobs \cup SkipJobs
    /\ result = NoResult
    /\ WfpIdle
    /\ ScanIdle
    /\ SizeIdle
    /\ RunIdle

ParseNext ==
    \/ MergeDependencies
    \/ MavenExecute
    \/ PipExecute
    \/ GradleExecute
    \/ ParsePipfile
    \/ DecideSkip

ParseSpec == ParseInit /\ [][ParseNext]_vars

(***************************************************************************)
(* calculateDirSize.  An entry of the walk is [isDir, size]; the calling   *)
(* goroutine walks the entries and starts one goroutine per entry that is  *)
(* not a directory, then starts the closer goroutine and sums what arrives *)
(* on sizeChan.                                                            *)
(***************************************************************************)
Entry(d, n) == [isDir |-> d, size |-> n]

\* the entries a directory can hold: a subdirectory, an empty file, files
\* of 3 and of 5 bytes
EntryKinds == { Entry(TRUE, 4096), Entry(FALSE, 0), Entry(FALSE, 3), Entry(FALSE, 5) }

\* a send on sizeChan can proceed
SizeChanHasRoom == Len(sizeChan) < SizeChanCap

\* a closer that does not wait for the size goroutines
SizeTasksFinishedNoWait == TRUE

\* wg.Wait() of the closer goroutine returns (line 247)
SizeTasksFinished == \A i \in DOMAIN sizeTasks : sizeTasks[i].pc = "done"

\* lines 213-215: the os.Stat check of rootDir
SizeBegin ==
    /\ sizePc = "start"
    /\ IF dirExists
       THEN /\ sizePc' = "walk"
            /\ UNCHANGED sizeRet
       ELSE /\ sizePc' = "done"
            /\ sizeRet' = [size |-> 0, err |-> "not_exist"]
    /\ UNCHANGED << dirExists, dirEntries, sizeWalkPos, sizeTasks, semaphore,
                    sizeChan, sizeChanClosed, totalSize >>
    /\ UNCHANGED sizeFrame

\* lines 224-243: the walk callback on the next entry; for an entry that
\* is not a directory it starts a goroutine that holds info.Size()
SizeWalkStep ==
    /\ sizePc = "walk"
    /\ sizeWalkPos <= Len(dirEntries)
    /\ LET e == dirEntries[sizeWalkPos]
       IN  sizeTasks' = IF e.isDir THEN sizeTasks
                        ELSE sizeTasks @@ (sizeWalkPos :> [pc |-> "acquire", size |-> e.size])
    /\ sizeWalkPos' = sizeWalkPos + 1
    /\ UNCHANGED << dirExists, dirEntries, sizePc, semaphore, sizeChan,
                    sizeChanClosed, totalSize, sizeRet >>
    /\ UNCHANGED sizeFrame

\* filepath.Walk returns; lines 246-249 start the closer goroutine and the
\* caller enters the range loop
SizeWalkReturn ==
    /\ sizePc = "walk"
    /\ sizeWalkPos > Len(dirEntries)
    /\ sizePc' = "sum"
    /\ UNCHANGED << dirExists, dirEntries, sizeWalkPos, sizeTasks, semaphore,
                    sizeChan, sizeChanClosed, totalSize, sizeRet >>
    /\ UNCHANGED sizeFrame

\* line 236: semaphore <- struct{}{}, blocking while the semaphore is full
SizeAcquire(i) ==
    /\ sizePc # "panic"
    /\ i \in DOMAIN sizeTasks
    /\ sizeTasks[i].pc = "acquire"
    /\ semaphore < SemaphoreCap
    /\ semaphore' = semaphore + 1
    /\ sizeTasks' = [sizeTasks EXCEPT ![i].pc = "send"]
    /\ UNCHANGED << dirExists, dirEntries, sizePc, sizeWalkPos, sizeChan,
                    sizeChanClosed, totalSize, sizeRet >>
    /\ UNCHANGED sizeFrame

\* a size goroutine that sends and ends without releasing the semaphore
SizeSendKeepsSemaphore(i) ==
    /\ sizePc # "panic"
    /\ i \in DOMAIN sizeTasks
    /\ sizeTasks[i].pc = "send"
    /\ ~sizeChanClosed
    /\ SizeChanHasRoom
    /\ sizeChan' = Append(sizeChan, sizeTasks[i].size)
    /\ sizeTasks' = [sizeTasks EXCEPT ![i].pc = "done"]
    /\ UNCHANGED << dirExists, dirEntries, sizePc, sizeWalkPos, semaphore,
                    sizeChanClosed, totalSize, sizeRet >>
    /\ UNCHANGED sizeFrame

\* line 239: sizeChan <- size, blocking while the channel is full and
\* panicking on a closed channel; then the deferred release of the
\* semaphore and wg.Done()
SizeSend(i) ==
    /\ sizePc # "panic"
    /\ i \in DOMAIN sizeTasks
    /\ sizeTasks[i].pc = "send"
    /\ IF sizeChanClosed
       THEN /\ sizePc' = "panic"
            /\ UNCHANGED << sizeTasks, sizeChan, semaphore >>
       ELSE /\ SizeChanHasRoom
            /\ sizeChan' = Append(sizeChan, sizeTasks[i].size)
            /\ semaphore' = semaphore - 1
            /\ sizeTasks' = [sizeTasks EXCEPT ![i].pc = "done"]
            /\ UNCHANGED sizePc
    /\ UNCHANGED << dirExists, dirEntries, sizeWalkPos, sizeChanClosed,
                    totalSize, sizeRet >>
    /\ UNCHANGED sizeFrame

\* lines 246-249: the closer goroutine, started after the walk
SizeClose ==
    /\ sizePc = "sum"
    /\ ~sizeChanClosed
    /\ SizeTasksFinished
    /\ sizeChanClosed' = TRUE
    /\ UNCHANGED << dirExists, dirEntries, sizePc, sizeWalkPos, sizeTasks,
                    semaphore, sizeChan, totalSize, sizeRet >>
    /\ UNCHANGED sizeFrame

\* lines 252-254: one iteration of the range loop
SizeReceive ==
    /\ sizePc = "sum"
    /\ sizeChan # <<>>
    /\ totalSize' = totalSize + Head(sizeChan)
    /\ sizeChan' = Tail(sizeChan)
    /\ UNCHANGED << dirExists, dirEntries, sizePc, sizeWalkPos, sizeTasks,
                    semaphore, sizeChanClosed, sizeRet >>
    /\ UNCHANGED sizeFrame

\* lines 252, 256: the range loop ends on the closed, drained channel
SizeReturn ==
    /\ sizePc = "sum"
    /\ sizeChan = <<>>
    /\ sizeChanClosed
    /\ sizePc' = "done"
    /\ sizeRet' = [size |-> totalSize, err |-> "nil"]
    /\ UNCHANGED << dirExists, dirEntries, sizeWalkPos, sizeTasks, semaphore,
                    sizeChan, sizeChanClosed, totalSize >>
    /\ UNCHANGED sizeFrame

\* one call of calculateDirSize, for a directory that exists and holds up
\* to MaxDirEntries entries, or for one that does not exist
SizeInit ==
    /\ dirExists \in BOOLEAN
    /\ dirEntries \in IF dirExists THEN SeqsUpTo(EntryKinds, MaxDirEntries) ELSE { <<>> }
    /\ sizePc = "start"
    /\ sizeWalkPos = 1
    /\ sizeTasks = <<>>
    /\ semaphore = 0
    /\ sizeChan = <<>>
    /\ sizeChanClosed = FALSE
    /\ totalSize = 0
    /\ sizeRet = [size |-> 0, err |-> "pending"]
    /\ WfpIdle
    /\ ScanIdle
    /\ ParseIdle
    /\ RunIdle

SizeNext ==
    \/ SizeBegin
    \/ SizeWalkStep
    \/ SizeWalkReturn
    \/ \E i \in DOMAIN sizeTasks : SizeAcquire(i)
    \/ \E i \in DOMAIN sizeTasks : SizeSend(i)
    \/ SizeClose
    \/ SizeReceive
    \/ SizeReturn

SizeSpec == SizeInit /\ [][SizeNext]_vars

\* the Go scheduler runs some goroutine whenever one can take a step
SizeFairness == WF_vars(SizeNext)

SizeLiveSpec == SizeInit /\ [][SizeNext]_vars /\ SizeFairness

(***************************************************************************)
Returned == pc = "done"

Succeeded == pc = "done" /\ ret.err = "nil"

\* the digest goroutines that produced a record
Producers == { r \in DOMAIN tasks : tasks[r].fp # NoFingerprint }

\* the number of lines of the artifact that equal the record rec
Occurrences(rec) == Cardinality({ i \in 1..Len(artifact) : artifact[i] = rec })

\* a record was received by the writer and is not in the artifact: a write
\* of the writer failed
RecordsLost ==
    Cardinality({ r \in Producers : tasks[r].pc = "done" })
        > Len(artifact) + Len(fingerprintChan)

RootIsDir == StatKind(tree, scanDir) = "dir"

\* the record the engine writes for the file f of the tree
ExpectedRecord(f) == Fingerprint(Join(scanDir, f.rel), f.data, f.size)

\* f is a readable, non-empty file that the skip predicate lets pass (no
\* file of the tree is the artifact)
Eligible(f) ==
    /\ f.readable
    /\ f.size > 0
    /\ ~shouldSkipFile(Join(scanDir, f.rel), f.size)

\* C1: when GenerateWfpFile has returned successfully, every digest
\* goroutine has finished, the record channel is closed and empty, the
\* writer has ended, and every record a digest goroutine produced is a line
\* of the artifact.
C1_FlushedOnSuccess ==
    Succeeded =>
        /\ \A r \in DOMAIN tasks : tasks[r].pc = "done"
        /\ chanClosed
        /\ fingerprintChan = <<>>
        /\ writer = "done"
        /\ \A r \in Producers : Occurrences(tasks[r].fp) = 1
        /\ Len(artifact) = Cardinality(Producers)

\* a successful return after three digest goroutines, two of which produced
\* a record
C1_Witness ==
    /\ Succeeded
    /\ Cardinality(DOMAIN tasks) >= 3
    /\ Cardinality(Producers) >= 2

\* C2 (read with C10, which excepts the files that cannot be read): after a
\* successful GenerateWfpFile the artifact holds exactly one record for each
\* non-empty regular file under the root that is not the artifact and is
\* not matched by the skip predicate, and no other record.
C2_ExactlyTheEligibleFiles ==
    Succeeded =>
        /\ \A f \in tree : Eligible(f) => Occurrences(ExpectedRecord(f)) = 1
        /\ \A i \in 1..Len(artifact) :
             \E f \in tree : Eligible(f) /\ artifact[i] = ExpectedRecord(f)

\* C6: a GenerateWfpFile call on a root that does not exist or is not a
\* directory returns the "not found" error with an empty path, and no
\* artifact file is ever created.
C6_BadRootWritesNothing ==
    ~RootIsDir =>
        /\ ~artifactExists
        /\ artifact = <<>>
        /\ writer = "none"
        /\ Returned => ret = Result(EmptyPath, "not_found")

\* the call has returned for a root that is a regular file
C6_Witness ==
    /\ Returned
    /\ StatKind(tree, scanDir) = "file"
    /\ ret.err = "not_found"

C8_NoArtifactOnError ==
    (Returned /\ ret.err # "nil") => ~artifactExists

\* C9: no line of the artifact is a record of the artifact file itself.
C9_NoSelfRecord ==
    \A r \in DOMAIN tasks :
        IsArtifact(r) => Occurrences(tasks[r].fp) = 0

\* C10: a file that cannot be opened gets no record; when no write and no
\* creation failed, the call that has returned has succeeded, and every
\* other eligible file has its record in the artifact exactly once.
C10_UnreadableFileIsSkipped ==
    (Returned /\ RootIsDir /\ artifactExists /\ ~RecordsLost) =>
        /\ ret.err = "nil"
        /\ \A f \in tree :
             /\ ~f.readable => Occurrences(ExpectedRecord(f)) = 0
             /\ ~f.readable =>
                  \A i \in 1..Len(artifact) :
                      artifact[i].file # ExpectedRecord(f).file
             /\ Eligible(f) => Occurrences(ExpectedRecord(f)) = 1

\* a successful return over a tree with an unreadable file, for which a
\* digest goroutine ran, and with the records of two other files written
C10_Witness ==
    /\ Succeeded
    /\ \E f \in tree : ~f.readable /\ f.rel \in DOMAIN tasks
    /\ Cardinality({ f \in tree : Eligible(f) /\ Occurrences(ExpectedRecord(f)) = 1 }) = 2

(***************************************************************************)
(* Properties of ScanDependencies (checked under ScanSpec).                *)
(***************************************************************************)
Scanned == scanErr # "none"

ScannerTools == { scanners[i] : i \in 1..Len(scanners) }

\* ScanExecute was invoked on the scanner of t and returned no error
ExecuteSucceeded(t) ==
    /\ \E i \in 1..Len(calls) : calls[i] = Call(t, "ScanExecute")
    /\ ~ExecuteFails(t, brokenManifest, failedCommand)

\* the roots the scanners of ss returned, one after the other
RECURSIVE RootsOf(_)
RootsOf(ss) ==
    IF ss = <<>> THEN <<>>
    ELSE <<DependencyRoot(Head(ss))>> \o RootsOf(Tail(ss))

\* C3: ScanDependencies returns a nil error, whatever the root and whatever
\* fails; when no scanner completed its Execute step the list is empty.
C3_NeverFails ==
    Scanned =>
        /\ scanErr = "nil"
        /\ (\A t \in ScannerTools : ~ExecuteSucceeded(t)) => deps = <<>>

\* a call on which each of at least two detected scanners failed
C3_Witness ==
    /\ Scanned
    /\ Len(scanners) >= 2
    /\ \A t \in ScannerTools :
          t \in missingExe \/ ExecuteFails(t, brokenManifest, failedCommand)
    /\ \E t \in ScannerTools :
          t \notin missingExe /\ ExecuteFails(t, brokenManifest, failedCommand)
    /\ missingExe # {}

C5_ExeFindIsSoft ==
    (Scanned /\ markerChanges = 0) =>
        \A t \in ScannerTools :
            ((\E m \in MarkersOf(t) : m \in markers) /\ t \notin brokenManifest
                /\ t \notin failedCommand)
                => \E i \in 1..Len(deps) : deps[i].BuildTool = t

(***************************************************************************)
(* Claims about successive calls of GenerateWfpFile (RerunSpec).           *)
(***************************************************************************)
\* the multiset of the records of an artifact
RecordBag(recs) ==
    [ rec \in { recs[i] : i \in 1..Len(recs) } |->
        Cardinality({ i \in 1..Len(recs) : recs[i] = rec }) ]

\* the call that has returned is a repetition of the call before it: same
\* scan directory, same configuration, and both succeeded
Repeated ==
    /\ callNo > 1
    /\ pc = "done"
    /\ ret.err = "nil"
    /\ prevRun.err = "nil"
    /\ prevRun.scanDir = scanDir

\* C11: two successive runs over an unchanged tree with the same
\* configuration leave the same multiset of records in the artifact, also
\* when the artifact of the first run is still under the scan root when the
\* second run starts.
C11_RerunSameRecords ==
    Repeated => RecordBag(artifact) = RecordBag(prevRun.records)

\* the path below the scan root of the entry a digest goroutine was
\* spawned for
PathBelowRoot(r) == Path(FALSE, r)

\* C12: every record a GenerateWfpFile call produces names its file by the
\* path relative to the root passed to that call, in any sequence of calls
\* on one scanner, also when an earlier call had another root.
C12_PathRelativeToCallRoot ==
    \A r \in DOMAIN tasks :
        tasks[r].fp # NoFingerprint => tasks[r].fp.file = PathBelowRoot(r)

(***************************************************************************)
(* Claims about the scanner protocol (ScanSpec).                           *)
(***************************************************************************)
\* the methods ScanDependencies invoked on the scanner of tool t, in order
MethodsOn(t) ==
    LET cs == SelectSeq(calls, LAMBDA c : c.tool = t)
    IN  [i \in 1..Len(cs) |-> cs[i].method]

ProtocolOrder == << "ExeFind", "FileFind", "ScanExecute" >>

\* after a scan every detected scanner had its executable lookup, and what
\* was invoked on it is a beginning of the protocol, each step once
ProtocolInOrder ==
    Scanned =>
        \A i \in 1..Len(scanners) :
            LET ms == MethodsOn(scanners[i])
            IN  /\ Len(ms) \in 1..Len(ProtocolOrder)
                /\ ms = SubSeq(ProtocolOrder, 1, Len(ms))

\* a manifest of tool t is in the directory
ManifestPresent(t) == bsRootExists /\ MarkersOf(t) \cap markers # {}

\* a step that leaves the marker files alone and ends with Execute invoked
\* on a scanner found a manifest for it
ExecuteOnlyWithManifest ==
    markers' = markers =>
        \A i \in 1..Len(calls') :
            calls'[i].method = "ScanExecute" => ManifestPresent(calls'[i].tool)

\* C13: for each detected scanner ScanDependencies runs executable lookup,
\* manifest lookup and Execute in that order, each at most once, and never
\* invokes Execute on a scanner whose manifest lookup failed.
C13_ProtocolOrder == []ProtocolInOrder /\ [][ExecuteOnlyWithManifest]_vars

\* a scan in which one scanner was executed and another stopped at its
\* failed manifest lookup
C13_Witness ==
    /\ Scanned
    /\ \E t \in ToolSet : MethodsOn(t) = ProtocolOrder
    /\ \E t \in ToolSet :
          /\ MethodsOn(t) = << "ExeFind", "FileFind" >>
          /\ ~ManifestPresent(t)

\* the ecosystems whose manifest is an XML or a JSON document
StructuredManifestTools == { "maven", "npm" }

\* ScanExecute was invoked on the scanner of t
Executed(t) == \E i \in 1..Len(calls) : calls[i] = Call(t, "ScanExecute")

\* C14: when pom.xml is not well-formed XML, or package.json is not valid
\* JSON, the Execute step of that ecosystem fails and the list returned by
\* ScanDependencies holds no root of that ecosystem, whatever the external
\* command of the ecosystem did.
C14_MalformedManifestGivesNoRoot ==
    Scanned =>
        \A t \in StructuredManifestTools :
            (Executed(t) /\ t \in brokenManifest)
                => \A i \in 1..Len(deps) : deps[i].BuildTool # t

(***************************************************************************)
(* Claims about the manifest parsers (ParseSpec).                          *)
(***************************************************************************)
NamesIn(list) == { list[i].Name : i \in 1..Len(list) }

EntriesNamed(list, n) == { list[i] : i \in { k \in 1..Len(list) : list[k].Name = n } }

Merged == job.kind = "merge" /\ result.kind = "merge"

\* C15: the pip merge returns exactly one entry per package name of the
\* requirements list or the installed list; for a name in the requirements
\* list the entry is a requirement (its version, also when the installed
\* list has another), for a name only in the installed list the entry is
\* the installed one unchanged.
C15_PipMerge ==
    Merged =>
        LET req == job.requirements
            inst == job.installed
            out == result.deps
        IN  /\ NamesIn(out) = NamesIn(req) \cup NamesIn(inst)
            /\ \A n \in NamesIn(out) :
                  Cardinality({ i \in 1..Len(out) : out[i].Name = n }) = 1
            /\ \A i \in 1..Len(out) :
                  IF out[i].Name \in NamesIn(req)
                  THEN out[i] \in EntriesNamed(req, out[i].Name)
                  ELSE out[i] \in EntriesNamed(inst, out[i].Name)

\* X is required at 1.2.0 and installed at 1.1.0, Y is only installed: the
\* merge gave X at 1.2.0 and Y as installed
C15_Witness ==
    /\ Merged
    /\ job.requirements = << PipDep("X", "1.2.0") >>
    /\ job.installed = << PipDep("X", "1.1.0"), PipDep("Y", "1.1.0") >>
    /\ PipDep("X", "1.2.0") \in { result.deps[i] : i \in 1..Len(result.deps) }
    /\ PipDep("Y", "1.1.0") \in { result.deps[i] : i \in 1..Len(result.deps) }

MavenExecuted == job.kind = "maven" /\ result.kind = "maven"

\* C16: for a well-formed pom.xml with N dependency elements the Maven
\* root Execute returns has exactly N dependencies, where a dependency
\* without scope has scope "compile" and one without type has type "jar".
C16_MavenRootHasPomDependencies ==
    (MavenExecuted /\ job.pom.ok) =>
        /\ result.err = "nil"
        /\ Len(result.roots) = 1
        /\ LET ds == result.roots[1].Dependencies
               es == job.pom.deps
           IN  /\ Len(ds) = Len(es)
               /\ \A i \in 1..Len(es) :
                     /\ ds[i].Name = es[i].ArtifactID
                     /\ es[i].Scope = "" => ds[i].Scope = "compile"
                     /\ es[i].Type = "" => ds[i].Type = "jar"

\* a scanner's Execute step has returned its roots
Executes == result.kind \in { "maven", "pip", "gradle" }

\* C17: in every DependencyRoot a scanner returns to ScanDependencies, the
\* ID.Type of each dependency is the BuildTool identifier of the root.
C17_IdTypeIsBuildTool ==
    Executes =>
        \A r \in 1..Len(result.roots) :
            \A d \in 1..Len(result.roots[r].Dependencies) :
                result.roots[r].Dependencies[d].ID.Type = result.roots[r].BuildTool

\* the ecosystem identifiers of the marker table
Ecosystems == { buildFiles[f] : f \in DOMAIN buildFiles }

\* how often the identifier e is in the list
TimesListed(e, list) == Cardinality({ i \in 1..Len(list) : list[i] = e })

\* C18: the list DetectBuildTools returns holds, for the files that were
\* directly under the root at the call, each ecosystem with a marker file
\* exactly once and no ecosystem without one; for an empty directory it is
\* empty.
C18_EachEcosystemOnce ==
    detected.called =>
        \A e \in Ecosystems :
            TimesListed(e, detected.tools) =
                IF \E f \in detected.files : buildFiles[f] = e THEN 1 ELSE 0

\* a line that is a dependency configuration keyword followed by a
\* 'group:artifact:version' literal
IsConfigurationLine(line) ==
    /\ line.words \in GradleConfigurations
    /\ ~line.eq
    /\ Len(line.literal) = 3

\* the scope the keyword stands for
KeywordScope(words) ==
    IF words[1] = "test" THEN "test"
    ELSE IF words = <<"compile", "Only">> THEN "provided"
    ELSE "runtime"

\* one dependency for each configuration line, in the order of the lines
RECURSIVE ExpectedGradleDeps(_)
ExpectedGradleDeps(lines) ==
    IF lines = <<>> THEN <<>>
    ELSE (IF IsConfigurationLine(Head(lines))
          THEN << Dep(Head(lines).literal[1], Head(lines).literal[2],
                      Head(lines).literal[3], "gradle", KeywordScope(Head(lines).words)) >>
          ELSE <<>>) \o ExpectedGradleDeps(Tail(lines))

\* C20: every line of build.gradle that is a dependency configuration
\* keyword followed by a 'group:artifact:version' literal yields exactly
\* one dependency, with scope "test" for a test-prefixed keyword,
\* "provided" for compileOnly and "runtime" otherwise; lines without such
\* a literal yield none.
C20_GradleKeywordScopes ==
    (job.kind = "gradle" /\ result.kind = "gradle" /\ job.readable) =>
        result.roots[1].Dependencies = ExpectedGradleDeps(job.lines)

(***************************************************************************)
(* Claims about calculateDirSize (SizeSpec).                               *)
(***************************************************************************)
RECURSIVE SumOfFiles(_)
SumOfFiles(es) ==
    IF es = <<>> THEN 0
    ELSE (IF Head(es).isDir THEN 0 ELSE Head(es).size) + SumOfFiles(Tail(es))

FileCount(es) == Cardinality({ i \in 1..Len(es) : ~es[i].isDir })

StandardPipfile(lines) == \A i \in 1..Len(lines) : lines[i].sect # "custom"

\* C21: parsePipfile returns the project name "unknown" and the project
\* version "unknown" for every standard Pipfile, also for one whose
\* [[source]] section has a name entry.
C21_StandardPipfileIsUnknown ==
    (job.kind = "pipfile" /\ result.kind = "pipfile" /\ job.readable
       /\ StandardPipfile(job.lines)) =>
        /\ result.parsed.name = "unknown"
        /\ result.parsed.version = "unknown"

(***************************************************************************)
(* Further claims about GenerateWfpFile.                                   *)
(***************************************************************************)
\* the file with the path rel below the scan root lies, at some depth, in
\* a hidden directory or in a directory of the skip-directory set
InHiddenOrSkippedDir(rel) ==
    \E k \in 1..(Len(rel) - 1) : HasDotPrefix(rel[k]) \/ rel[k] \in SkipDirs

\* the artifact holds a record of the tree file f
HasRecordOf(f) == \E i \in 1..Len(artifact) : artifact[i].hash = Md5(f.data)

\* C22: no record is ever written for a file that lies, at any depth
\* under the scan root, in a hidden directory or in a directory of the
\* skip-directory set.
C22_NoRecordBelowHiddenOrSkipped ==
    \A f \in tree : InHiddenOrSkippedDir(f.rel) => ~HasRecordOf(f)

\* the step of the writer that appends the record at the head of the
\* queue as one line, and nothing else touches the walk or the tasks
WriterAppendsHead ==
    /\ writer = "run"
    /\ fingerprintChan # <<>>
    /\ artifact' = Append(artifact, Head(fingerprintChan))
    /\ fingerprintChan' = Tail(fingerprintChan)
    /\ UNCHANGED << tasks, walkPos, pc >>

\* os.Create of the calling goroutine, before the writer and the walk
CreateTruncates == pc = "start" /\ artifact' = <<>> /\ writer = "none"

LiveSizeTasks == { i \in DOMAIN sizeTasks : sizeTasks[i].pc # "done" }

\* C24: the number of size tasks that exist at the same time is bounded
\* by the worker-pool size (twice the CPU count), not by the number of
\* files.
C24_TasksBoundedByPool == Cardinality(LiveSizeTasks) <= SemaphoreCap

\* the queue is closed only when the walk is over and every digest task
\* has ended, and no task has sent on the closed queue
ClosedAfterTasks ==
    /\ pc # "panic"
    /\ chanClosed =>
          /\ walkPos > Len(entries)
          /\ \A r \in DOMAIN tasks : tasks[r].pc = "done"
    /\ (pc = "done" /\ writer # "none") => chanClosed

\* close(fingerprintChan) is a step of the caller at wg.Wait, on the open
\* queue; the queue is never opened again
ClosedOnce ==
    /\ chanClosed => chanClosed'
    /\ (~chanClosed /\ chanClosed') => (pc = "wait" /\ pc' = "writerWait")

\* C26: the record queue is closed exactly once and only after the walk
\* has ended and every digest task has finished; in no interleaving does
\* a digest task send a record on the closed queue.
C26_CloseAfterAllSends == []ClosedAfterTasks /\ [][ClosedOnce]_vars

\* a call whose queue was closed after three digest tasks, one of which
\* sent nothing
C26_Witness ==
    /\ chanClosed
    /\ pc = "done"
    /\ Cardinality(DOMAIN tasks) = 3
    /\ Len(artifact) = 2
    /\ ret.err = "nil"

(***************************************************************************)
(* Termination of GenerateWfpFile (LiveSpec).                              *)
(***************************************************************************)
\* C25: every GenerateWfpFile call eventually returns, with success or
\* with an error, also when a write to the artifact fails while more
\* records remain to be queued than the record queue holds.
C25_CallReturns == <>(pc = "done")

(***************************************************************************)
(* Termination of calculateDirSize (SizeLiveSpec).                         *)
(***************************************************************************)
\* sizeChan is closed only after every size task has sent its value, and
\* no task has sent on the closed channel
SizeClosedAfterSends ==
    /\ sizePc # "panic"
    /\ sizeChanClosed =>
          /\ sizeWalkPos > Len(dirEntries)
          /\ \A i \in DOMAIN sizeTasks : sizeTasks[i].pc = "done"

\* sizeChan is never opened again
SizeClosedOnce == sizeChanClosed => sizeChanClosed'

\* C27: calculateDirSize always terminates, for any number of files, also
\* more than the capacity of sizeChan plus the size of the semaphore: no
\* size task stays blocked forever, and sizeChan is closed exactly once,
\* after every size task has sent its value.
C27_SizeTerminates ==
    /\ <>(sizePc = "done")
    /\ [](sizePc = "done" => \A i \in DOMAIN sizeTasks : sizeTasks[i].pc = "done")
    /\ []SizeClosedAfterSends
    /\ [][SizeClosedOnce]_vars

\* a call that returned for more files than sizeChan and the semaphore
\* hold together
C27_Witness ==
    /\ sizePc = "done"
    /\ sizeRet.err = "nil"
    /\ sizeChanClosed
    /\ FileCount(dirEntries) > SizeChanCap + SemaphoreCap
    /\ Cardinality(DOMAIN sizeTasks) = FileCount(dirEntries)

(***************************************************************************)
(* The scanner list of a BuildScanner (FrameSpec).                         *)
(***************************************************************************)
\* the tools with a marker file under the root now
ToolsWithMarker == { t \in ToolSet : \E m \in MarkersOf(t) : bsRootExists /\ m \in markers }

\* the tools ExeFind was invoked on by the last scan, in order
ToolsEntered ==
    LET cs == SelectSeq(calls, LAMBDA c : c.method = "ExeFind")
    IN  [i \in 1..Len(cs) |-> cs[i].tool]

\* NewBuildScanner fixes the list from the marker files of that moment,
\* and no later step changes it
ScannersFixed ==
    /\ (bsPc = "new" /\ bsPc' = "ready") =>
          { scanners'[i] : i \in 1..Len(scanners') } = ToolsWithMarker
    /\ bsPc = "ready" => scanners' = scanners

\* DetectBuildTools reports the marker files of the moment of its call
DetectFollowsMarkers ==
    detected' # detected =>
        { detected'.tools[i] : i \in 1..Len(detected'.tools) } = ToolsWithMarker

\* C28: the set of scanners a BuildScanner runs is fixed when
\* NewBuildScanner is called: marker files added or removed afterwards
\* change what DetectBuildTools reports but not which scanners
\* ScanDependencies runs, and repeated ScanDependencies calls never add or
\* remove scanners.
C28_ScannersFixedAtConstruction ==
    /\ [](scanErr # "none" => ToolsEntered = scanners)
    /\ [][ScannersFixed /\ DetectFollowsMarkers]_vars

\* after a marker file was removed, a scan still entered the scanner made
\* for it, while DetectBuildTools no longer reports its tool
C28_Witness ==
    /\ markerChanges > 0
    /\ scanErr # "none"
    /\ detected.called
    /\ detected.files = markers
    /\ \E i \in 1..Len(scanners) :
          /\ scanners[i] \notin ToolsWithMarker
          /\ scanners[i] \in { ToolsEntered[k] : k \in 1..Len(ToolsEntered) }
          /\ scanners[i] \notin { detected.tools[k] : k \in 1..Len(detected.tools) }

(***************************************************************************)
(* The skip decision and the place of the scan root (ParseSpec).           *)
(***************************************************************************)
\* the decision for the same file below the root /w/proj, none of whose
\* elements is a skip-directory name
DecisionBelowPlainRoot(f) ==
    \/ HasDotPrefix(f.rel[Len(f.rel)])
    \/ \E k \in 1..Len(f.rel) : f.rel[k] \in SkipDirs
    \/ ToLower(Ext(Path(FALSE, f.rel))) \in BinaryExts
    \/ f.size > MaxFileSize

\* C29: whether a file is eligible for fingerprinting depends only on its
\* path below the scan root and on its size; the name of the scan root
\* and the names of its ancestor directories never cause a file to be
\* skipped.
C29_EligibilityIgnoresRoot ==
    (job.kind = "skip" /\ result.kind = "skip") =>
        result.skip = DecisionBelowPlainRoot(job.file)

(***************************************************************************)
(* The order of runSourceScan (RunSpec).                                   *)
(***************************************************************************)
\* the positions of the log at which the step name was taken
StepsAt(name) == { i \in 1..Len(runLog) : runLog[i].step = name }

\* the upload was attempted only after authentication and then
\* fingerprint generation had succeeded
UploadAfterAuthAndWfp ==
    \A u \in StepsAt("upload") :
        \E a \in StepsAt("auth"), w \in StepsAt("wfp") :
            a < w /\ w < u /\ runLog[a].ok /\ runLog[w].ok

\* a run that generated the fingerprint file and has returned has
\* attempted the upload, whatever dependency resolution returned
UploadDespiteDeps ==
    (runPc = "done" /\ (\E w \in StepsAt("wfp") : runLog[w].ok)) =>
        /\ StepsAt("upload") # {}
        /\ uploadData # NoUpload

\* C30: runSourceScan attempts the upload only after authentication and
\* fingerprint generation have both succeeded, in that order, and it
\* still attempts the upload when dependency resolution fails.
C30_UploadOrder ==
    /\ UploadAfterAuthAndWfp
    /\ UploadDespiteDeps
    /\ (uploadData # NoUpload) = (StepsAt("upload") # {})

\* a run whose dependency resolution failed and which then attempted the
\* upload, without a dependency file
C30_Witness ==
    /\ runPc = "done"
    /\ \E d \in StepsAt("deps") : ~runLog[d].ok
    /\ StepsAt("upload") # {}
    /\ uploadData # NoUpload
    /\ uploadData.BuildFile = ""
    /\ uploadData.WfpFile # ""

====
